---- MODULE Spec2Model ----
(***************************************************************************)
(* A model of the preset-env pass composer and polyfill injector           *)
(* (ecmascript/preset_env/src/lib.rs) and of the TypeScript expression     *)
(* analyzer (typescript/checker/src/analyzer/expr.rs).                     *)
(***************************************************************************)
EXTENDS Integers, Sequences, FiniteSets

VARIABLES
    pc,               \* position of the modelled run
    c,                \* the Config handed to preset_env / held by Polyfills
    pass,             \* the composed pipeline: a sequence of stages
    debug_out,        \* lines written by the debug trace of add!
    input,            \* the Module / Script handed to fold
    node,             \* the Module being folded / returned by fold
    applied,          \* names of the stages whose fold has been called, in call order
    required,         \* v.required as consumed by prepend_stmts in the last fold
    first_out,        \* the Module returned by the first fold of a run
    first_required,   \* v.required of the first fold of a run
    runs,             \* number of folds of the Polyfills stage so far
    outcome,          \* "none", "ok" or "panic"
    message,          \* the panic message, "" when there is none
    debug_assertions, \* cfg!(debug_assertions) of the build
    builtins,         \* corejs2 compatibility rows of the polyfill modules
    targets,          \* should_enable: the target versions
    row,              \* should_enable: the feature's compatibility row
    default_on,       \* should_enable: the default
    enable,           \* should_enable: the result
    resolved_imports, \* Analyzer.resolved_imports
    scope,            \* Analyzer.scope, innermost frame first
    libs,             \* Analyzer.libs
    scope_types,      \* the type declarations Analyzer.scope resolves by find_type
    expr,             \* the expression handed to type_of
    result,           \* the Result of type_of / extract / try_instantiate
    in_ty,            \* the Type handed to negate / extract / try_instantiate
    in_kind,          \* ExtractKind: "Call" or "New"
    in_args,          \* the arguments of the call
    in_type_args,     \* the type arguments of the call, an Option
    negated,          \* the Type returned by the last negate
    steps,            \* number of times negate has been applied
    jsx_dev,          \* JsxSelf.dev
    jsx_in,           \* the JSXOpeningElement before the first fold
    jsx_n,            \* the JSXOpeningElement returned by the last fold
    folds             \* number of folds applied to the element

vars == << pc, c, pass, debug_out, input, node, applied, required, first_out,
           first_required, runs,
           outcome, message, debug_assertions, builtins, targets, row, default_on,
           enable, resolved_imports, scope, libs, scope_types, expr, result,
           in_ty, in_kind, in_args, in_type_args, negated, steps, jsx_dev, jsx_in,
           jsx_n, folds >>

\* ------------------------------------------------------------------------
\* Bounds of the model
\* ------------------------------------------------------------------------
MaxMajor == 2
MaxBody == 2
MaxSkip == 1
MaxRuns == 2
MaxScopeDepth == 2
MaxSpan == 2

\* ------------------------------------------------------------------------
\* Option<T>, Version, BrowserData
\* ------------------------------------------------------------------------
None == << >>
Some(x) == << x >>
Unwrap(o) == o[1]

\* semver::Version as <<major, minor, patch>>
VersionSet == { << ma, mi, 0 >> : ma \in 1..MaxMajor, mi \in {0, 1} }
VersionOpt == { None } \cup { Some(v) : v \in VersionSet }

VersionLt(a, b) ==
    \/ a[1] < b[1]
    \/ a[1] = b[1] /\ a[2] < b[2]
    \/ a[1] = b[1] /\ a[2] = b[2] /\ a[3] < b[3]

\* the fields of BrowserData, in declaration order
PlatformOrder ==
    << "chrome", "ie", "edge", "firefox", "safari", "node", "ios", "samsung",
       "opera", "android", "electron", "phantom" >>

Platforms == { PlatformOrder[i] : i \in DOMAIN PlatformOrder }

\* BrowserData<Option<Version>>::default()
NoTargets == [ p \in Platforms |-> None ]

is_any_target_some(versions) == \E p \in Platforms : versions[p] = None

is_any_target(versions) == \A p \in Platforms : versions[p] = None

\* ------------------------------------------------------------------------
\* Feature::should_enable
\* ------------------------------------------------------------------------
\* one platform of the row against the same platform of the targets
NeedsLowering(target_version, f) ==
    IF target_version = None THEN FALSE
    ELSE IF f = None THEN TRUE
    ELSE VersionLt(Unwrap(target_version), Unwrap(f))

RECURSIVE AnyNeedsLowering(_, _, _)
AnyNeedsLowering(i, versions, r) ==
    IF i > Len(PlatformOrder) THEN FALSE
    ELSE IF NeedsLowering(versions[PlatformOrder[i]], r[PlatformOrder[i]]) THEN TRUE
    ELSE AnyNeedsLowering(i + 1, versions, r)

should_enable(r, versions, default) ==
    IF is_any_target(versions) THEN default
    ELSE AnyNeedsLowering(1, versions, r)

\* ------------------------------------------------------------------------
\* Config
\* ------------------------------------------------------------------------
\* the platforms given a version by the configurations explored
TargetedPlatforms == { "chrome", "ie" }

VersionsSet ==
    { [ p \in Platforms |-> IF p \in TargetedPlatforms THEN t[p] ELSE None ] :
        t \in [ TargetedPlatforms -> VersionOpt ] }

ModeSet == { None, Some("Usage"), Some("Entry") }

\* Config::default(): every field at its Default
ConfigDefault ==
    [ mode |-> None, debug |-> FALSE, dynamic_import |-> FALSE, loose |-> FALSE,
      skip |-> {}, core_js |-> 0, versions |-> NoTargets ]

\* ------------------------------------------------------------------------
\* The feature table (transform_data): one compatibility row per feature
\* ------------------------------------------------------------------------
Eras == << "ES3", "ES2015", "ES2016", "ES2017", "ES2018" >>

EraSet == { Eras[i] : i \in DOMAIN Eras }

Era(feature) ==
    IF feature \in { "ObjectRestSpread", "OptionalCatchBinding" } THEN "ES2018"
    ELSE IF feature = "AsyncToGenerator" THEN "ES2017"
    ELSE IF feature = "ExponentiationOperator" THEN "ES2016"
    ELSE IF feature \in { "PropertyLiterals", "MemberExpressionLiterals", "ReservedWords" }
    THEN "ES3"
    ELSE "ES2015"

MinVersion == << 1, 0, 0 >>
TopVersion == << MaxMajor, 1, 0 >>

ShipChoices == { Some(MinVersion), Some(TopVersion), None }

ShipsNoLater(a, b) ==
    \/ b = None
    \/ a # None /\ b # None /\ ~ VersionLt(Unwrap(b), Unwrap(a))

\* the tables explored: the features of an era share one row, an era ships at
\* one version on every platform or never, and no era ships before an older one
FeatureTables ==
    { t \in [ EraSet -> ShipChoices ] :
        \A i \in 1..(Len(Eras) - 1) : ShipsNoLater(t[Eras[i]], t[Eras[i + 1]]) }

FeatureRow(table, feature) == [ p \in Platforms |-> table[Era(feature)] ]

\* ------------------------------------------------------------------------
\* preset_env: the pipeline
\* ------------------------------------------------------------------------
\* the add! invocations of preset_env in source order, with their $default
PresetEnvStages ==
    << [ feature |-> "ObjectRestSpread", default |-> FALSE ],
       [ feature |-> "OptionalCatchBinding", default |-> FALSE ],
       [ feature |-> "AsyncToGenerator", default |-> FALSE ],
       [ feature |-> "ExponentiationOperator", default |-> FALSE ],
       [ feature |-> "BlockScopedFunctions", default |-> TRUE ],
       [ feature |-> "TemplateLiterals", default |-> TRUE ],
       [ feature |-> "Classes", default |-> TRUE ],
       [ feature |-> "Spread", default |-> TRUE ],
       [ feature |-> "FunctionName", default |-> TRUE ],
       [ feature |-> "ArrowFunctions", default |-> TRUE ],
       [ feature |-> "DuplicateKeys", default |-> TRUE ],
       [ feature |-> "StickyRegex", default |-> TRUE ],
       [ feature |-> "TypeOfSymbol", default |-> TRUE ],
       [ feature |-> "ShorthandProperties", default |-> TRUE ],
       [ feature |-> "Parameters", default |-> TRUE ],
       [ feature |-> "ForOf", default |-> TRUE ],
       [ feature |-> "ComputedProperties", default |-> TRUE ],
       [ feature |-> "Destructuring", default |-> TRUE ],
       [ feature |-> "BlockScoping", default |-> TRUE ],
       [ feature |-> "PropertyLiterals", default |-> FALSE ],
       [ feature |-> "MemberExpressionLiterals", default |-> FALSE ],
       [ feature |-> "ReservedWords", default |-> FALSE ] >>

\* the Config field a stage is constructed with, when it takes one
StageParam(feature, cfg) ==
    IF feature \in { "Spread", "ForOf", "Destructuring" } THEN Some(cfg.loose)
    ELSE IF feature = "ReservedWords" THEN Some(cfg.dynamic_import)
    ELSE None

\* Optional::new($pass, enable)
OptionalNew(name, param, enabled) ==
    [ name |-> name, param |-> param, enabled |-> enabled ]

\* chain!(a, b): a pass that folds with a, then with b
Chain(prev, p) == Append(prev, p)

add_default_dropped(prev, stage, cfg, table) ==
    LET f == stage.feature
        en == should_enable(FeatureRow(table, f), cfg.versions, FALSE)
    IN  Chain(prev, OptionalNew(f, StageParam(f, cfg), en))

\* add!($prev, $feature, $pass, $default)
add(prev, stage, cfg, table) ==
    LET f == stage.feature
        en == should_enable(FeatureRow(table, f), cfg.versions, stage.default)
    IN  Chain(prev, OptionalNew(f, StageParam(f, cfg), en))

\* the line add! writes when c.debug is set
add_debug(out, stage, cfg, table) ==
    LET f == stage.feature
        en == should_enable(FeatureRow(table, f), cfg.versions, stage.default)
    IN  IF cfg.debug THEN Append(out, << f, en >>) ELSE out

RECURSIVE AddStagesNewestLast(_, _, _, _)
AddStagesNewestLast(prev, i, cfg, table) ==
    IF i > Len(PresetEnvStages) THEN prev
    ELSE AddStagesNewestLast(
             add(prev, PresetEnvStages[Len(PresetEnvStages) + 1 - i], cfg, table),
             i + 1, cfg, table)

\* the chain of let pass = add!(pass, ..) bindings
RECURSIVE AddStages(_, _, _, _)
AddStages(prev, i, cfg, table) ==
    IF i > Len(PresetEnvStages) THEN prev
    ELSE AddStages(add(prev, PresetEnvStages[i], cfg, table), i + 1, cfg, table)

RECURSIVE AddDebug(_, _, _, _)
AddDebug(out, i, cfg, table) ==
    IF i > Len(PresetEnvStages) THEN out
    ELSE AddDebug(add_debug(out, PresetEnvStages[i], cfg, table), i + 1, cfg, table)

\* if c.core_js == 0 { c.core_js = 2 }
NormalizeCoreJs(cfg) == IF cfg.core_js = 0 THEN [ cfg EXCEPT !.core_js = 2 ] ELSE cfg

PolyfillsStage == [ name |-> "Polyfills", param |-> None, enabled |-> TRUE ]

preset_env(cfg, table) ==
    Chain(AddStages(<< >>, 1, NormalizeCoreJs(cfg), table), PolyfillsStage)

\* ------------------------------------------------------------------------
\* The AST: a Module or Script is a body of items
\* ------------------------------------------------------------------------
\* a construct the stage of feature f lowers
Syntax(f) == [ kind |-> "syntax", name |-> f, src |-> << >>, specifiers |-> << >> ]
\* a use of the polyfillable global g
Use(g) == [ kind |-> "use", name |-> g, src |-> << >>, specifiers |-> << >> ]
\* any other statement
Stmt == [ kind |-> "stmt", name |-> "", src |-> << >>, specifiers |-> << >> ]

Module(body) == [ type |-> "Module", body |-> body ]
Script(body) == [ type |-> "Script", body |-> body ]
NoNode == [ type |-> "", body |-> << >> ]

BodiesOver(items) == UNION { [ 1..n -> items ] : n \in 0..MaxBody }

\* what the stage of a feature does to one item: its construct is rewritten to
\* the older equivalent, everything else is kept
Lower(feature, item) ==
    IF item.kind = "syntax" /\ item.name = feature
    THEN [ item EXCEPT !.kind = "lowered" ]
    ELSE item

FoldStage(feature, n) ==
    [ n EXCEPT !.body = [ i \in DOMAIN n.body |-> Lower(feature, n.body[i]) ] ]

\* Optional: fold with the wrapped pass when enabled, else return the node
FoldOptional(stage, n) ==
    IF stage.enabled THEN FoldStage(stage.name, n) ELSE n

\* the stages chained before Polyfills, folded in chain order from stage i on
RECURSIVE FoldStages(_, _, _)
FoldStages(p, i, n) ==
    IF i >= Len(p) THEN n
    ELSE FoldStages(p, i + 1, FoldOptional(p[i], n))

\* the names of the stages whose wrapped pass folded the node, in call order
RECURSIVE StagesRun(_, _, _)
StagesRun(p, i, acc) ==
    IF i > Len(p) THEN acc
    ELSE StagesRun(p, i + 1, IF p[i].enabled THEN Append(acc, p[i].name) ELSE acc)

\* ------------------------------------------------------------------------
\* Strings as sequences of bytes (JsWord orders as str does)
\* ------------------------------------------------------------------------
RECURSIVE StrLtFrom(_, _, _)
StrLtFrom(a, b, i) ==
    IF i > Len(b) THEN FALSE
    ELSE IF i > Len(a) THEN TRUE
    ELSE IF a[i] < b[i] THEN TRUE
    ELSE IF a[i] > b[i] THEN FALSE
    ELSE StrLtFrom(a, b, i + 1)

StrLt(a, b) == StrLtFrom(a, b, 1)

RECURSIVE InsertSorted(_, _)
InsertSorted(sorted, x) ==
    IF sorted = << >> THEN << x >>
    ELSE IF StrLt(x, Head(sorted)) THEN << x >> \o sorted
    ELSE << Head(sorted) >> \o InsertSorted(Tail(sorted), x)

\* a stable sort of a Vec<JsWord>
RECURSIVE Sort(_)
Sort(v) ==
    IF v = << >> THEN << >>
    ELSE InsertSorted(Sort(SubSeq(v, 1, Len(v) - 1)), v[Len(v)])

Contains(v, x) == \E i \in DOMAIN v : v[i] = x

\* ------------------------------------------------------------------------
\* corejs2: the usage visitor
\* ------------------------------------------------------------------------
Es6Map ==
    \* "es6.map"
    << 101, 115, 54, 46, 109, 97, 112 >>
Es6ObjectToString ==
    \* "es6.object.to-string"
    << 101, 115, 54, 46, 111, 98, 106, 101, 99, 116, 46, 116, 111, 45, 115, 116, 114, 105, 110, 103 >>
Es6Promise ==
    \* "es6.promise"
    << 101, 115, 54, 46, 112, 114, 111, 109, 105, 115, 101 >>
WebDomIterable ==
    \* "web.dom.iterable"
    << 119, 101, 98, 46, 100, 111, 109, 46, 105, 116, 101, 114, 97, 98, 108, 101 >>
CoreJsModules ==
    \* "core-js/modules/"
    << 99, 111, 114, 101, 45, 106, 115, 47, 109, 111, 100, 117, 108, 101, 115, 47 >>

PolyfillNames == { Es6Map, Es6ObjectToString, Es6Promise, WebDomIterable }

\* format!("core-js/modules/{}", f)
Specifier(f) == CoreJsModules \o f

\* the polyfills a use of a global asks for, in the order the rule lists them
UsageRules(g) ==
    IF g = "Map" THEN << Es6Map, Es6ObjectToString, WebDomIterable >>
    ELSE IF g = "Promise" THEN << Es6Promise, Es6ObjectToString >>
    ELSE << >>

\* the compatibility tables explored for the polyfills: a polyfilled builtin
\* ships at one version on every platform, or never
BuiltinTables ==
    { [ f \in PolyfillNames |-> None ],
      [ f \in PolyfillNames |-> Some(MinVersion) ],
      [ f \in PolyfillNames |-> IF f = Es6Map THEN Some(MinVersion) ELSE None ] }

BuiltinRow(bt, f) == [ p \in Platforms |-> bt[f] ]

\* UsageVisitor::add: push each feature the targets lack, once
RECURSIVE VisitorAdd(_, _, _, _, _)
VisitorAdd(req, versions, bt, features, i) ==
    IF i > Len(features) THEN req
    ELSE LET f == features[i]
             v == Specifier(f)
             skipped == /\ ~ is_any_target(versions)
                        /\ ~ AnyNeedsLowering(1, versions, BuiltinRow(bt, f))
         IN  VisitorAdd(IF skipped \/ Contains(req, v) THEN req ELSE Append(req, v),
                        versions, bt, features, i + 1)

\* node.visit_with(&mut v): the items in source order
RECURSIVE UsageVisit(_, _, _, _, _)
UsageVisit(req, versions, bt, body, i) ==
    IF i > Len(body) THEN req
    ELSE UsageVisit(
             IF body[i].kind = "use"
             THEN VisitorAdd(req, versions, bt, UsageRules(body[i].name), 1)
             ELSE req,
             versions, bt, body, i + 1)

\* ------------------------------------------------------------------------
\* Polyfills: the last stage
\* ------------------------------------------------------------------------
SortRequiredNever(req, da) == req

\* if cfg!(debug_assertions) { v.required.sort() }
SortRequired(req, da) == IF da THEN Sort(req) ELSE req

\* the list handed to prepend_stmts by one fold of a Module
Required(cfg, da, bt, n) ==
    IF cfg.mode = Some("Usage")
    THEN SortRequired(UsageVisit(<< >>, cfg.versions, bt, n.body, 1), da)
    ELSE << >>

ImportDeclDefaultBinding(src) ==
    [ kind |-> "import", name |-> "", src |-> src, specifiers |-> << "default" >> ]

\* ModuleItem::ModuleDecl(ModuleDecl::Import(ImportDecl { specifiers: vec![], src }))
ImportDecl(src) == [ kind |-> "import", name |-> "", src |-> src, specifiers |-> << >> ]

ImportDecls(req) == [ i \in DOMAIN req |-> ImportDecl(req[i]) ]

\* prepend_stmts(&mut to, stmts)
prepend_stmts(to, stmts) == stmts \o to

PolyfillsFoldModuleAnyMode(cfg, da, bt, n) ==
    [ n EXCEPT !.body =
        prepend_stmts(n.body,
            ImportDecls(SortRequired(UsageVisit(<< >>, cfg.versions, bt, n.body, 1), da))) ]

\* impl Fold<Module> for Polyfills
PolyfillsFoldModule(cfg, da, bt, n) ==
    IF cfg.mode = Some("Usage")
    THEN [ n EXCEPT !.body = prepend_stmts(n.body, ImportDecls(Required(cfg, da, bt, n))) ]
    ELSE n

ScriptPanic == "not implemented: automatic polyfill for scripts"

PolyfillsFoldScriptLenient(cfg, n) ==
    IF cfg.mode = Some("Usage")
    THEN [ outcome |-> "panic", message |-> ScriptPanic ]
    ELSE [ outcome |-> "ok", message |-> "" ]

\* impl Fold<Script> for Polyfills
PolyfillsFoldScript(cfg, n) == [ outcome |-> "panic", message |-> ScriptPanic ]

\* ------------------------------------------------------------------------
\* The analyzer: types, results, context
\* ------------------------------------------------------------------------
Spans == 1..MaxSpan
\* the span of a declaration held by a table of the context
DeclSpan == MaxSpan + 1

KeywordType(kind, span) == [ tag |-> "TsKeywordType", kind |-> kind, span |-> span ]
ThisType(span) == [ tag |-> "TsThisType", kind |-> "this", span |-> span ]

\* pub const fn undefined(span)
undefined(span) == KeywordType("undefined", span)

Ok(t) == [ tag |-> "Ok", val |-> t ]
Err(e) == [ tag |-> "Err", val |-> e ]
Panicked(msg) == [ tag |-> "Panic", val |-> [ kind |-> msg, span |-> DeclSpan ] ]
NoResult == [ tag |-> "", val |-> [ kind |-> "", span |-> DeclSpan ] ]

UndefinedSymbol(span) == [ kind |-> "UndefinedSymbol", span |-> span ]

Ident(sym, span) == [ tag |-> "Ident", sym |-> sym, span |-> span ]
This(span) == [ tag |-> "This", sym |-> "", span |-> span ]
NoExpr == [ tag |-> "", sym |-> "", span |-> DeclSpan ]
NoType == [ tag |-> "", kind |-> "", span |-> DeclSpan ]

\* the names the tables of the context may bind
TableNames == { "a", "undefined" }
IdentSyms == { "a", "undefined", "require" }

\* the tables binding each name to nothing or to the type ty
TablesOf(ty) == [ TableNames -> { None, Some(ty) } ]

ImportTables == TablesOf(KeywordType("number", DeclSpan))
Frames == TablesOf(KeywordType("string", DeclSpan))
LibTables == TablesOf(KeywordType("any", DeclSpan))
Scopes == UNION { [ 1..n -> Frames ] : n \in 0..MaxScopeDepth }

Lookup(table, sym) == IF sym \in DOMAIN table THEN table[sym] ELSE None

\* Analyzer::find_var_type: the innermost frame declaring the name
RECURSIVE find_var_type(_, _, _)
find_var_type(sc, i, sym) ==
    IF i > Len(sc) THEN None
    ELSE IF Lookup(sc[i], sym) # None THEN Lookup(sc[i], sym)
    ELSE find_var_type(sc, i + 1, sym)

\* builtin_types::get(libs, sym)
builtin_types_get(lb, sym) == Lookup(lb, sym)

\* ------------------------------------------------------------------------
\* The analyzer: the variants of Type and of TsType
\* ------------------------------------------------------------------------
\* the values of number and string literals
MaxNum == MaxSpan
NumValues == 0..MaxNum
StrValues == { "", "a", "b" }

\* Lit::Bool / Lit::Num / Lit::Str, one record shape for the three
BoolLit(v, span) == [ kind |-> "Bool", b |-> v, n |-> 0, s |-> "", span |-> span ]
NumLit(v, span) == [ kind |-> "Number", b |-> FALSE, n |-> v, s |-> "", span |-> span ]
StrLit(v, span) == [ kind |-> "Str", b |-> FALSE, n |-> 0, s |-> v, span |-> span ]

LitType(lit, span) == [ tag |-> "TsLitType", lit |-> lit, span |-> span ]
ArrayType(elem_type, span) == [ tag |-> "Array", elem_type |-> elem_type, span |-> span ]
UnionType(types, span) == [ tag |-> "Union", types |-> types, span |-> span ]
TypeRef(type_name, span) == [ tag |-> "TsTypeRef", type_name |-> type_name, span |-> span ]
TypeQuery(sym, span) == [ tag |-> "TsTypeQuery", sym |-> sym, span |-> span ]
TypeLit(members, span) == [ tag |-> "TsTypeLit", members |-> members, span |-> span ]
IndexedAccessType(obj_type, index_type, span) ==
    [ tag |-> "TsIndexedAccessType", obj_type |-> obj_type, index_type |-> index_type,
      span |-> span ]
EnumType(sym, span) == [ tag |-> "Enum", sym |-> sym, span |-> span ]
\* TsUnionType: the union type of the syntax tree, as opposed to Type::Union
TsUnionType(types, span) == [ tag |-> "TsUnionType", types |-> types, span |-> span ]

\* TsFnParam: an identifier, optional or not, or a rest pattern
FnParamIdent(sym, optional) == [ tag |-> "Ident", sym |-> sym, optional |-> optional ]
FnParamRest(sym) == [ tag |-> "Rest", sym |-> sym, optional |-> FALSE ]

\* TsFnType / TsConstructorType: params, type_params, type_ann
FnType(params, type_params, type_ann, span) ==
    [ tag |-> "TsFnType", params |-> params, type_params |-> type_params,
      type_ann |-> type_ann, span |-> span ]
ConstructorType(params, type_params, type_ann, span) ==
    [ tag |-> "TsConstructorType", params |-> params, type_params |-> type_params,
      type_ann |-> type_ann, span |-> span ]

\* TsTypeElement: the members of a TsTypeLit; type_ann is an Option
CallSignatureDecl(params, type_params, type_ann, span) ==
    [ tag |-> "TsCallSignatureDecl", key |-> "", params |-> params,
      type_params |-> type_params, type_ann |-> type_ann, span |-> span ]
ConstructSignatureDecl(params, type_params, type_ann, span) ==
    [ tag |-> "TsConstructSignatureDecl", key |-> "", params |-> params,
      type_params |-> type_params, type_ann |-> type_ann, span |-> span ]
MethodSignature(key, params, type_ann, span) ==
    [ tag |-> "TsMethodSignature", key |-> key, params |-> params,
      type_params |-> 0, type_ann |-> type_ann, span |-> span ]
PropertySignature(key, type_ann, span) ==
    [ tag |-> "TsPropertySignature", key |-> key, params |-> << >>,
      type_params |-> 0, type_ann |-> type_ann, span |-> span ]

\* const fn any(span)
any(span) == KeywordType("any", span)

\* the type with every span replaced by the same one
RECURSIVE StripSpan(_)
StripSpan(t) ==
    IF t.tag = "TsLitType"
    THEN LitType([ t.lit EXCEPT !.span = DeclSpan ], DeclSpan)
    ELSE IF t.tag = "Array" THEN ArrayType(StripSpan(t.elem_type), DeclSpan)
    ELSE IF t.tag \in { "Union", "TsUnionType" }
    THEN [ tag |-> t.tag, types |-> [ i \in DOMAIN t.types |-> StripSpan(t.types[i]) ],
           span |-> DeclSpan ]
    ELSE IF t.tag = "TsIndexedAccessType"
    THEN IndexedAccessType(StripSpan(t.obj_type), StripSpan(t.index_type), DeclSpan)
    ELSE IF t.tag \in { "TsFnType", "TsConstructorType" }
    THEN [ t EXCEPT !.type_ann = StripSpan(t.type_ann), !.span = DeclSpan ]
    ELSE IF t.tag = "TsTypeLit"
    THEN TypeLit([ i \in DOMAIN t.members |->
                     [ t.members[i] EXCEPT
                         !.type_ann = IF t.members[i].type_ann = None THEN None
                                      ELSE Some(StripSpan(Unwrap(t.members[i].type_ann))),
                         !.span = DeclSpan ] ], DeclSpan)
    ELSE [ t EXCEPT !.span = DeclSpan ]

\* EqIgnoreSpan::eq_ignore_span
eq_ignore_span(a, b) == StripSpan(a) = StripSpan(b)

\* Type::generalize_lit: a literal type widens to its primitive keyword
generalize_lit(t) ==
    IF t.tag = "TsLitType"
    THEN KeywordType(CASE t.lit.kind = "Bool" -> "boolean"
                       [] t.lit.kind = "Number" -> "number"
                       [] OTHER -> "string", t.span)
    ELSE t

negate_number_falsy(ty) ==
    IF ty.tag = "TsLitType"
    THEN CASE ty.lit.kind = "Bool" -> LitType(BoolLit(~ty.lit.b, ty.lit.span), ty.span)
           [] ty.lit.kind = "Number" -> LitType(BoolLit(ty.lit.n = 0, ty.lit.span), ty.span)
           [] OTHER -> LitType(BoolLit(ty.lit.s # "", ty.lit.span), ty.span)
    ELSE KeywordType("boolean", ty.span)

\* fn negate(ty: Type) -> Type
negate(ty) ==
    IF ty.tag = "TsLitType"
    THEN CASE ty.lit.kind = "Bool" -> LitType(BoolLit(~ty.lit.b, ty.lit.span), ty.span)
           [] ty.lit.kind = "Number" -> LitType(BoolLit(ty.lit.n # 0, ty.lit.span), ty.span)
           [] OTHER -> LitType(BoolLit(ty.lit.s # "", ty.lit.span), ty.span)
    ELSE KeywordType("boolean", ty.span)

type_of_ident_scope_first(ri, sc, lb, i) ==
    IF i.sym = "require" THEN Panicked("unreachable: typeof(require('...'))")
    ELSE IF find_var_type(sc, 1, i.sym) # None THEN Ok(Unwrap(find_var_type(sc, 1, i.sym)))
    ELSE IF Lookup(ri, i.sym) # None THEN Ok(Unwrap(Lookup(ri, i.sym)))
    ELSE IF builtin_types_get(lb, i.sym) # None THEN Ok(Unwrap(builtin_types_get(lb, i.sym)))
    ELSE Err(UndefinedSymbol(i.span))

\* the arm Expr::Ident(ref i) of type_of
type_of_ident(ri, sc, lb, i) ==
    IF i.sym = "require" THEN Panicked("unreachable: typeof(require('...'))")
    ELSE IF Lookup(ri, i.sym) # None THEN Ok(Unwrap(Lookup(ri, i.sym)))
    ELSE IF find_var_type(sc, 1, i.sym) # None THEN Ok(Unwrap(find_var_type(sc, 1, i.sym)))
    ELSE IF builtin_types_get(lb, i.sym) # None THEN Ok(Unwrap(builtin_types_get(lb, i.sym)))
    ELSE Err(UndefinedSymbol(i.span))

\* ------------------------------------------------------------------------
\* The analyzer: errors and expressions
\* ------------------------------------------------------------------------
\* the source path held by the analyzer, carried by diagnostics only
Path == "index.ts"

NoCallSignature(span) == [ kind |-> "NoCallSignature", span |-> span ]
NoNewSignature(span) == [ kind |-> "NoNewSignature", span |-> span ]
UnionError(span, errors) == [ kind |-> "UnionError", span |-> span, errors |-> errors ]
WrongParams(span, callee, min, max, actual) ==
    [ kind |-> "WrongParams", span |-> span, callee |-> callee,
      expected |-> [ start |-> min, end |-> max ], actual |-> actual ]
Unimplemented(span, sym, path) ==
    [ kind |-> "Unimplemented", span |-> span,
      msg |-> [ text |-> "expand_export_info", sym |-> sym, path |-> path ] ]

\* unimplemented!(msg)
NotImplemented(msg) == Panicked("not implemented: " \o msg)

\* Expr::Lit: the literal carries its own span
LitExpr(lit) == [ tag |-> "Lit", lit |-> lit, span |-> lit.span ]
NullLit(span) == [ kind |-> "Null", b |-> FALSE, n |-> 0, s |-> "", span |-> span ]
RegexLit(span) == [ kind |-> "Regex", b |-> FALSE, n |-> 0, s |-> "", span |-> span ]

\* ExprOrSpread; spread is the Option<Span> of the dots
ExprOrSpread(spread, e) == [ spread |-> spread, arg |-> e ]
Elem(e) == Some(ExprOrSpread(None, e))
SpreadElem(e) == Some(ExprOrSpread(Some(e.span), e))
Hole == None

ArrayLit(elems, span) == [ tag |-> "Array", elems |-> elems, span |-> span ]
ParenExpr(e, span) == [ tag |-> "Paren", arg |-> e, span |-> span ]
TplExpr(exprs, span) == [ tag |-> "Tpl", exprs |-> exprs, span |-> span ]
UnaryExpr(op, e, span) == [ tag |-> "Unary", op |-> op, arg |-> e, span |-> span ]
BinExpr(op, left, right, span) ==
    [ tag |-> "Bin", op |-> op, left |-> left, right |-> right, span |-> span ]
AssignExpr(left, right, span) ==
    [ tag |-> "Assign", left |-> left, right |-> right, span |-> span ]
UpdateExpr(e, span) == [ tag |-> "Update", arg |-> e, span |-> span ]
YieldExpr(span) == [ tag |-> "Yield", span |-> span ]
AwaitExpr(e, span) == [ tag |-> "Await", arg |-> e, span |-> span ]
MetaPropExpr(span) == [ tag |-> "MetaProp", span |-> span ]
SeqExpr(exprs, span) == [ tag |-> "Seq", exprs |-> exprs, span |-> span ]
TsAsExpr(e, type_ann, span) ==
    [ tag |-> "TsAs", arg |-> e, type_ann |-> type_ann, span |-> span ]
TsTypeCastExpr(e, type_ann, span) ==
    [ tag |-> "TsTypeCast", arg |-> e, type_ann |-> type_ann, span |-> span ]
TsNonNullExpr(e, span) == [ tag |-> "TsNonNull", arg |-> e, span |-> span ]
CondExpr(test, cons, alt, span) ==
    [ tag |-> "Cond", test |-> test, cons |-> cons, alt |-> alt, span |-> span ]
MemberExpr(obj, prop, computed, span) ==
    [ tag |-> "Member", obj |-> obj, prop |-> prop, computed |-> computed, span |-> span ]
\* ExprOrSuper::Super
Super(span) == [ tag |-> "Super", span |-> span ]
CallExpr(callee, args, type_args, span) ==
    [ tag |-> "Call", callee |-> callee, args |-> args, type_args |-> type_args,
      span |-> span ]
\* args is an Option: `new C` has none
NewExpr(callee, args, type_args, span) ==
    [ tag |-> "New", callee |-> callee, args |-> args, type_args |-> type_args,
      span |-> span ]

\* PropOrSpread of an object literal
Prop(key, span) == [ tag |-> "Prop", key |-> key, span |-> span ]
SpreadProp(span) == [ tag |-> "Spread", key |-> "", span |-> span ]
ObjectLit(props, span) == [ tag |-> "Object", props |-> props, span |-> span ]

\* Pat of a parameter: an identifier, optional or not, or a rest pattern
PatIdent(sym, optional) == [ tag |-> "PatIdent", sym |-> sym, optional |-> optional ]
PatRest(sym) == [ tag |-> "PatRest", sym |-> sym, optional |-> FALSE ]

\* statements of a function body
ReturnStmt(e, span) == [ tag |-> "Return", arg |-> e, span |-> span ]
ExprStmt(e, span) == [ tag |-> "ExprStmt", arg |-> Some(e), span |-> span ]
BlockStmt(stmts, span) == [ tag |-> "BlockStmt", stmts |-> stmts, span |-> span ]

\* ArrowExpr: body is a BlockStmt or an expression; return_type is an Option
ArrowExpr(params, body, return_type, span) ==
    [ tag |-> "Arrow", params |-> params, body |-> body, return_type |-> return_type,
      type_params |-> 0, span |-> span ]
\* FnExpr: body is an Option<BlockStmt>
FnExpr(params, body, return_type, span) ==
    [ tag |-> "Fn", params |-> params, fn_body |-> body, return_type |-> return_type,
      type_params |-> 0, span |-> span ]

\* ClassMember and ClassExpr
ClassProp(key, type_ann, value, span) ==
    [ tag |-> "ClassProp", key |-> key, type_ann |-> type_ann, value |-> value,
      params |-> << >>, span |-> span ]
Constructor(params, span) ==
    [ tag |-> "Constructor", key |-> "constructor", type_ann |-> None, value |-> None,
      params |-> params, span |-> span ]
Method(key, span) ==
    [ tag |-> "Method", key |-> key, type_ann |-> None, value |-> None,
      params |-> << >>, span |-> span ]
ClassExpr(body, span) == [ tag |-> "Class", class_body |-> body, span |-> span ]

\* export::pat_to_ts_fn_param
pat_to_ts_fn_param(p) ==
    IF p.tag = "PatRest" THEN FnParamRest(p.sym) ELSE FnParamIdent(p.sym, p.optional)

\* Scope::find_type
find_type(types, sym) == Lookup(types, sym)

\* RemoveTypes::remove_falsy: undefined, null and the literal false leave a union
IsFalsy(t) ==
    \/ t.tag = "TsKeywordType" /\ t.kind \in { "undefined", "null" }
    \/ t.tag = "TsLitType" /\ t.lit.kind = "Bool" /\ ~t.lit.b

remove_falsy(t) ==
    IF t.tag # "Union" THEN t
    ELSE LET kept == SelectSeq(t.types, LAMBDA m : ~IsFalsy(m))
         IN  IF Len(kept) = 0 THEN KeywordType("never", t.span)
             ELSE IF Len(kept) = 1 THEN kept[1]
             ELSE UnionType(kept, t.span)

\* ------------------------------------------------------------------------
\* The analyzer: type_of and the functions it calls
\* ------------------------------------------------------------------------
\* the context borrowed by one type_of call
AnalyzerOf(ri, sc, lb, types) ==
    [ resolved_imports |-> ri, scope |-> sc, libs |-> lb, types |-> types, path |-> Path ]

IsOk(r) == r.tag = "Ok"

\* the arity envelope min..=len of a parameter list
MinArity(param_decls) ==
    Cardinality({ i \in DOMAIN param_decls :
                    ~(param_decls[i].tag = "Ident" /\ param_decls[i].optional) })

try_instantiate_type_args_checked(span, callee_span, ret_type, param_decls, ty_params_decl, args, i) ==
    IF i # None /\ ty_params_decl = 0
    THEN Err(WrongParams(span, callee_span, 0, 0, Len(Unwrap(i))))
    ELSE IF Len(args) < MinArity(param_decls) \/ Len(args) > Len(param_decls)
    THEN Err(WrongParams(span, callee_span, MinArity(param_decls), Len(param_decls),
                         Len(args)))
    ELSE Ok(ret_type)

\* Analyzer::try_instantiate
try_instantiate(span, callee_span, ret_type, param_decls, ty_params_decl, args, i) ==
    IF Len(args) < MinArity(param_decls) \/ Len(args) > Len(param_decls)
    THEN Err(WrongParams(span, callee_span, MinArity(param_decls), Len(param_decls),
                         Len(args)))
    ELSE Ok(ret_type)

\* the root identifier of a TsEntityName, kept as the sequence of its names
root(type_name) == type_name[1]

RECURSIVE type_of(_, _)
RECURSIVE array_elem_types(_, _, _, _, _)
RECURSIVE visit_returns(_, _, _, _, _)
RECURSIVE class_members(_, _, _, _)
RECURSIVE extract(_, _, _, _, _, _)
RECURSIVE extract_members(_, _, _, _, _, _, _, _)
RECURSIVE extract_union(_, _, _, _, _, _, _, _)
RECURSIVE extract_call_new_expr(_, _, _, _, _)
RECURSIVE expand(_, _, _)
RECURSIVE infer_return_type(_, _)
RECURSIVE type_of_arrow_fn(_, _)
RECURSIVE type_of_fn(_, _)
RECURSIVE type_of_class(_, _)

\* Analyzer::expand
expand(a, span, t) ==
    IF t.tag = "TsTypeRef"
    THEN IF Lookup(a.resolved_imports, root(t.type_name)) # None THEN Ok(t)
         ELSE IF find_type(a.types, root(t.type_name)) # None THEN Ok(t)
         ELSE Err(Unimplemented(t.span, root(t.type_name), a.path))
    ELSE IF t.tag = "TsTypeQuery" THEN type_of(a, Ident(t.sym, t.span))
    ELSE Ok(t)

extract_members_first_error(a, span, t, members, i, kind, args, type_args) ==
    IF i > Len(members)
    THEN IF kind = "Call" THEN Err(NoCallSignature(span)) ELSE Err(NoNewSignature(span))
    ELSE LET member == members[i]
             considered ==
                 \/ member.tag = "TsCallSignatureDecl" /\ kind = "Call"
                 \/ member.tag = "TsConstructSignatureDecl" /\ kind = "New"
             r == try_instantiate(span, t.span,
                                  IF member.type_ann = None THEN any(span)
                                  ELSE Unwrap(member.type_ann),
                                  member.params, member.type_params, args, type_args)
         IN  IF considered THEN r
             ELSE extract_members(a, span, t, members, i + 1, kind, args, type_args)

\* the loop of extract over the members of a TsTypeLit
extract_members(a, span, t, members, i, kind, args, type_args) ==
    IF i > Len(members)
    THEN IF kind = "Call" THEN Err(NoCallSignature(span)) ELSE Err(NoNewSignature(span))
    ELSE LET member == members[i]
             considered ==
                 \/ member.tag = "TsCallSignatureDecl" /\ kind = "Call"
                 \/ member.tag = "TsConstructSignatureDecl" /\ kind = "New"
             r == try_instantiate(span, t.span,
                                  IF member.type_ann = None THEN any(span)
                                  ELSE Unwrap(member.type_ann),
                                  member.params, member.type_params, args, type_args)
         IN  IF considered /\ IsOk(r) THEN r
             ELSE extract_members(a, span, t, members, i + 1, kind, args, type_args)

extract_union_first_error(a, span, types, i, kind, args, type_args, errors) ==
    IF i > Len(types) THEN Err(UnionError(span, errors))
    ELSE LET r == extract(a, span, types[i], kind, args, type_args)
         IN  IF r.tag = "Err" THEN Err(UnionError(span, << r.val >>))
             ELSE r

\* the loop of extract over the members of a TsUnionType
extract_union(a, span, types, i, kind, args, type_args, errors) ==
    IF i > Len(types) THEN Err(UnionError(span, errors))
    ELSE LET r == extract(a, span, types[i], kind, args, type_args)
         IN  IF r.tag = "Err"
             THEN extract_union(a, span, types, i + 1, kind, args, type_args,
                                Append(errors, r.val))
             ELSE r

\* Analyzer::extract
extract(a, span, t0, kind, args, type_args) ==
    LET x == expand(a, span, t0)
        t == x.val
        ret_err == IF kind = "Call" THEN Err(NoCallSignature(span))
                   ELSE Err(NoNewSignature(span))
    IN  IF ~IsOk(x) THEN x
        ELSE IF t.tag = "TsKeywordType" /\ t.kind = "any" THEN Ok(any(span))
        ELSE IF t.tag = "TsTypeLit"
        THEN extract_members(a, span, t, t.members, 1, kind, args, type_args)
        ELSE IF t.tag = "TsFnType" /\ kind = "Call"
        THEN try_instantiate(span, t.span, t.type_ann, t.params, t.type_params, args,
                             type_args)
        ELSE IF t.tag = "TsConstructorType" /\ kind = "New"
        THEN try_instantiate(span, t.span, t.type_ann, t.params, t.type_params, args,
                             type_args)
        ELSE IF t.tag = "TsUnionType"
        THEN extract_union(a, span, t.types, 1, kind, args, type_args, << >>)
        ELSE ret_err

\* Analyzer::extract_call_new_expr
extract_call_new_expr(a, callee, kind, args, type_args) ==
    LET span == callee.span
    IN  IF callee.tag = "Ident" /\ callee.sym = "require"
        THEN IF args = << >> THEN Panicked("called Option::unwrap() on a None value")
             ELSE IF args[1].spread # None
             THEN NotImplemented("error reporting: spread element in require()")
             ELSE IF ~(args[1].arg.tag = "Lit" /\ args[1].arg.lit.kind = "Str")
             THEN NotImplemented("dynamic import: require()")
             ELSE IF Lookup(a.resolved_imports, args[1].arg.lit.s) # None
             THEN NotImplemented("dep")
             ELSE IF /\ find_type(a.types, callee.sym) # None
                     /\ Unwrap(find_type(a.types, callee.sym)).tag = "Enum"
             THEN Ok(TypeRef(<< callee.sym >>, span))
             ELSE Err(UndefinedSymbol(callee.span))
        ELSE IF callee.tag = "Member" /\ callee.obj.tag # "Super"
        THEN LET o == type_of(a, callee.obj)
                 obj_type == o.val
                 candidates ==
                     IF obj_type.tag = "TsTypeLit" /\ kind = "Call"
                     THEN SelectSeq(obj_type.members,
                                    LAMBDA m : /\ m.tag = "TsMethodSignature"
                                               /\ callee.prop.tag = "Ident"
                                               /\ callee.prop.sym = m.key)
                     ELSE << >>
                 ret(m) == IF m.type_ann = None THEN any(span) ELSE Unwrap(m.type_ann)
                 same_arity == { k \in DOMAIN candidates :
                                   Len(candidates[k].params) = Len(args) }
                 fall_through ==
                     IF callee.computed THEN NotImplemented("typeeof(CallExpr)")
                     ELSE IF kind = "Call" THEN Err(NoCallSignature(span))
                     ELSE Err(NoNewSignature(span))
             IN  IF ~IsOk(o) THEN o
                 ELSE IF obj_type.tag = "TsTypeLit"
                 THEN IF Len(candidates) = 0 THEN fall_through
                      ELSE IF Len(candidates) = 1 THEN Ok(ret(candidates[1]))
                      ELSE IF same_arity # {}
                      THEN Ok(ret(candidates[CHOOSE k \in same_arity :
                                               \A l \in same_arity : k <= l]))
                      ELSE NotImplemented("multiple methods with same name and same number of arguments")
                 ELSE IF obj_type.tag = "TsKeywordType" /\ obj_type.kind = "any"
                 THEN Ok(any(span))
                 ELSE fall_through
        ELSE LET callee_ty == type_of(a, callee)
             IN  IF ~IsOk(callee_ty) THEN callee_ty
                 ELSE extract(a, span, callee_ty.val, kind, args, type_args)

\* the Visitor of infer_return_type: one Result per ReturnStmt, in source order
visit_returns(a, stmts, i, types, span) ==
    IF i > Len(stmts) THEN Ok(types)
    ELSE IF stmts[i].tag # "Return"
    THEN visit_returns(a, stmts, i + 1, types, span)
    ELSE LET r == IF stmts[i].arg = None THEN Ok(undefined(span))
                  ELSE type_of(a, Unwrap(stmts[i].arg))
         IN  IF r.tag = "Panic" THEN r
             ELSE visit_returns(a, stmts, i + 1, Append(types, r), span)

infer_return_type_skips_bare_return(a, body) ==
    LET v == visit_returns(a, SelectSeq(body.stmts,
                                        LAMBDA s : ~(s.tag = "Return" /\ s.arg = None)),
                           1, << >>, body.span)
        failed == { i \in DOMAIN v.val : ~IsOk(v.val[i]) }
        tys == [ i \in DOMAIN v.val |-> v.val[i].val ]
    IN  IF ~IsOk(v) THEN v
        ELSE IF failed # {}
        THEN v.val[CHOOSE i \in failed : \A k \in failed : i <= k]
        ELSE IF Len(tys) = 0 THEN Ok(None)
        ELSE IF Len(tys) = 1 THEN Ok(Some(tys[1]))
        ELSE Ok(Some(UnionType(tys, body.span)))

\* Analyzer::infer_return_type
infer_return_type(a, body) ==
    LET v == visit_returns(a, body.stmts, 1, << >>, body.span)
        failed == { i \in DOMAIN v.val : ~IsOk(v.val[i]) }
        tys == [ i \in DOMAIN v.val |-> v.val[i].val ]
    IN  IF ~IsOk(v) THEN v
        ELSE IF failed # {}
        THEN v.val[CHOOSE i \in failed : \A k \in failed : i <= k]
        ELSE IF Len(tys) = 0 THEN Ok(None)
        ELSE IF Len(tys) = 1 THEN Ok(Some(tys[1]))
        ELSE Ok(Some(UnionType(tys, body.span)))

\* the function type built by type_of_arrow_fn and type_of_fn
FnTypeOf(f, ret_ty) ==
    FnType([ i \in DOMAIN f.params |-> pat_to_ts_fn_param(f.params[i]) ],
           f.type_params, ret_ty, f.span)

\* Analyzer::type_of_arrow_fn
type_of_arrow_fn(a, f) ==
    LET ret == IF f.return_type # None THEN expand(a, f.span, Unwrap(f.return_type))
               ELSE IF f.body.tag = "BlockStmt"
               THEN LET r == infer_return_type(a, f.body)
                    IN  IF ~IsOk(r) THEN r
                        ELSE IF r.val = None THEN Ok(undefined(f.body.span))
                        ELSE Ok(Unwrap(r.val))
               ELSE type_of(a, f.body)
    IN  IF ~IsOk(ret) THEN ret ELSE Ok(FnTypeOf(f, ret.val))

\* Analyzer::type_of_fn
type_of_fn(a, f) ==
    LET ret == IF f.return_type # None THEN expand(a, f.span, Unwrap(f.return_type))
               ELSE IF f.fn_body = None
               THEN Panicked("unreachable: function without body should have type annotation")
               ELSE LET r == infer_return_type(a, Unwrap(f.fn_body))
                    IN  IF ~IsOk(r) THEN r
                        ELSE IF r.val = None THEN Ok(undefined(Unwrap(f.fn_body).span))
                        ELSE Ok(Unwrap(r.val))
    IN  IF ~IsOk(ret) THEN ret ELSE Ok(FnTypeOf(f, ret.val))

\* the loop of type_of_class over the members of the class
class_members(a, body, i, type_props) ==
    IF i > Len(body) THEN Ok(type_props)
    ELSE LET member == body[i]
             v == IF member.type_ann # None THEN Ok(Unwrap(member.type_ann))
                  ELSE IF member.value # None THEN type_of(a, Unwrap(member.value))
                  ELSE Ok(any(member.span))
         IN  IF member.tag = "ClassProp"
             THEN IF ~IsOk(v) THEN v
                  ELSE class_members(a, body, i + 1,
                           Append(type_props,
                                  PropertySignature(member.key, Some(v.val), member.span)))
             ELSE IF member.tag = "Constructor"
             THEN class_members(a, body, i + 1,
                      Append(type_props,
                             ConstructSignatureDecl(
                                 [ k \in DOMAIN member.params |->
                                     pat_to_ts_fn_param(member.params[k]) ],
                                 0, None, member.span)))
             ELSE class_members(a, body, i + 1, type_props)

\* Analyzer::type_of_class
type_of_class(a, cl) ==
    LET r == class_members(a, cl.class_body, 1, << >>)
    IN  IF ~IsOk(r) THEN r ELSE Ok(TypeLit(r.val, cl.span))

array_elem_types_no_dedup(a, elems, i, types, span) ==
    IF i > Len(elems) THEN Ok(types)
    ELSE IF elems[i] = None
    THEN array_elem_types(a, elems, i + 1, Append(types, undefined(span)), span)
    ELSE IF Unwrap(elems[i]).spread # None THEN NotImplemented("type of array spread")
    ELSE LET r == type_of(a, Unwrap(elems[i]).arg)
         IN  IF ~IsOk(r) THEN r
             ELSE array_elem_types(a, elems, i + 1, Append(types, generalize_lit(r.val)),
                                   span)

\* the loop of the arm Expr::Array over the elements: the distinct element types
array_elem_types(a, elems, i, types, span) ==
    IF i > Len(elems) THEN Ok(types)
    ELSE IF elems[i] = None
    THEN array_elem_types(a, elems, i + 1,
             IF \A k \in DOMAIN types : ~eq_ignore_span(types[k], undefined(span))
             THEN Append(types, undefined(span)) ELSE types, span)
    ELSE IF Unwrap(elems[i]).spread # None THEN NotImplemented("type of array spread")
    ELSE LET r == type_of(a, Unwrap(elems[i]).arg)
             t == generalize_lit(r.val)
         IN  IF ~IsOk(r) THEN r
             ELSE array_elem_types(a, elems, i + 1,
                      IF \A k \in DOMAIN types : ~eq_ignore_span(types[k], t)
                      THEN Append(types, t) ELSE types, span)

\* the arm Expr::Array of type_of
type_of_array(a, e) ==
    LET r == array_elem_types(a, e.elems, 1, << >>, e.span)
    IN  IF ~IsOk(r) THEN r
        ELSE Ok(ArrayType(IF Len(r.val) = 0 THEN any(e.span)
                          ELSE IF Len(r.val) = 1 THEN r.val[1]
                          ELSE UnionType(r.val, e.span), e.span))

type_of_cond_always_union(a, e) ==
    LET cons_ty == type_of(a, e.cons)
        alt_ty == type_of(a, e.alt)
    IN  IF ~IsOk(cons_ty) THEN cons_ty
        ELSE IF ~IsOk(alt_ty) THEN alt_ty
        ELSE Ok(UnionType(<< cons_ty.val, alt_ty.val >>, e.span))

\* the arm Expr::Cond of type_of
type_of_cond(a, e) ==
    LET cons_ty == type_of(a, e.cons)
        alt_ty == type_of(a, e.alt)
    IN  IF ~IsOk(cons_ty) THEN cons_ty
        ELSE IF ~IsOk(alt_ty) THEN alt_ty
        ELSE IF eq_ignore_span(cons_ty.val, alt_ty.val) THEN cons_ty
        ELSE Ok(UnionType(<< cons_ty.val, alt_ty.val >>, e.span))

\* the arm Expr::Member of type_of
type_of_member(a, e) ==
    IF /\ e.obj.tag = "Ident"
       /\ find_type(a.types, e.obj.sym) # None
       /\ Unwrap(find_type(a.types, e.obj.sym)).tag = "Enum"
    THEN IF e.prop.tag = "Ident"
         THEN Ok(TypeRef(<< e.obj.sym, e.prop.sym >>, e.span))
         ELSE NotImplemented("error reporting: typeof(non-ident property of enum)")
    ELSE LET obj_type == type_of(a, e.obj)
             index_type == type_of(a, e.prop)
         IN  IF ~IsOk(obj_type) THEN obj_type
             ELSE IF ~e.computed
             THEN Ok(IndexedAccessType(obj_type.val, KeywordType("string", e.span), e.span))
             ELSE IF ~IsOk(index_type) THEN index_type
             ELSE Ok(IndexedAccessType(obj_type.val, index_type.val, e.span))

\* the arm Expr::Object of type_of
type_of_object(a, e) ==
    IF \E i \in DOMAIN e.props : e.props[i].tag = "Spread"
    THEN NotImplemented("spread element in object literal")
    ELSE Ok(TypeLit([ i \in DOMAIN e.props |->
                        PropertySignature(e.props[i].key, None, e.props[i].span) ],
                    e.span))

Comparisons == { "===", "!==", "!=", "==", "<=", "<", ">=", ">" }

\* the arms of type_of that end in unimplemented!
type_of_unhandled(a, e) ==
    IF e.tag = "Await" THEN NotImplemented("typeof(AwaitExpr)")
    ELSE IF e.tag = "MetaProp" THEN NotImplemented("typeof(MetaProp)")
    ELSE NotImplemented("typeof (" \o e.tag \o ")")

\* Analyzer::type_of, the arms in match order
type_of(a, e) ==
    IF e.tag = "This" THEN Ok(ThisType(e.span))
    ELSE IF e.tag = "Ident" /\ e.sym = "undefined" THEN Ok(undefined(e.span))
    ELSE IF e.tag = "Ident" THEN type_of_ident(a.resolved_imports, a.scope, a.libs, e)
    ELSE IF e.tag = "Array" THEN type_of_array(a, e)
    ELSE IF e.tag = "Lit" /\ e.lit.kind \in { "Bool", "Str", "Number" }
    THEN Ok(LitType(e.lit, e.lit.span))
    ELSE IF e.tag = "Lit" /\ e.lit.kind = "Null" THEN Ok(KeywordType("null", e.lit.span))
    ELSE IF e.tag = "Lit" THEN Ok(TypeRef(<< "RegExp" >>, e.span))
    ELSE IF e.tag = "Paren" THEN type_of(a, e.arg)
    ELSE IF e.tag = "Tpl" THEN Ok(KeywordType("string", e.span))
    ELSE IF e.tag = "Unary" /\ e.op = "!"
    THEN LET r == type_of(a, e.arg) IN IF ~IsOk(r) THEN r ELSE Ok(negate(r.val))
    ELSE IF e.tag = "Unary" /\ e.op = "typeof" THEN Ok(KeywordType("string", e.span))
    ELSE IF e.tag \in { "TsAs", "TsTypeCast" } THEN Ok(e.type_ann)
    ELSE IF e.tag = "TsNonNull"
    THEN LET r == type_of(a, e.arg) IN IF ~IsOk(r) THEN r ELSE Ok(remove_falsy(r.val))
    ELSE IF e.tag = "Object" THEN type_of_object(a, e)
    ELSE IF e.tag = "Yield" THEN Ok(any(e.span))
    ELSE IF e.tag = "Update" THEN Ok(KeywordType("number", e.span))
    ELSE IF e.tag = "Cond" THEN type_of_cond(a, e)
    ELSE IF e.tag = "New"
    THEN extract_call_new_expr(a, e.callee, "New",
                               IF e.args = None THEN << >> ELSE Unwrap(e.args),
                               e.type_args)
    ELSE IF e.tag = "Call" /\ e.callee.tag # "Super"
    THEN extract_call_new_expr(a, e.callee, "Call", e.args, e.type_args)
    ELSE IF e.tag = "Call" THEN Ok(any(e.span))
    ELSE IF e.tag = "Seq"
    THEN IF Len(e.exprs) = 0 THEN Panicked("assertion failed: exprs.len() >= 1")
         ELSE type_of(a, e.exprs[Len(e.exprs)])
    ELSE IF e.tag = "Await" THEN type_of_unhandled(a, e)
    ELSE IF e.tag = "Class" THEN type_of_class(a, e)
    ELSE IF e.tag = "Arrow" THEN type_of_arrow_fn(a, e)
    ELSE IF e.tag = "Fn" THEN type_of_fn(a, e)
    ELSE IF e.tag = "Member" /\ e.obj.tag # "Super" THEN type_of_member(a, e)
    ELSE IF e.tag = "MetaProp" THEN type_of_unhandled(a, e)
    ELSE IF e.tag = "Assign" THEN type_of(a, e.right)
    ELSE IF e.tag = "Bin" /\ e.op \in { "||", "&&" } THEN type_of(a, e.right)
    ELSE IF e.tag = "Bin" /\ e.op = "-" THEN Ok(KeywordType("number", e.span))
    ELSE IF e.tag = "Bin" /\ e.op \in Comparisons THEN Ok(KeywordType("boolean", e.span))
    ELSE IF e.tag = "Unary" /\ e.op = "void" THEN Ok(undefined(e.span))
    ELSE type_of_unhandled(a, e)

\* the expressions handed to type_of
ExprSet == { Ident(s, sp) : s \in IdentSyms, sp \in Spans } \cup { This(sp) : sp \in Spans }

\* ------------------------------------------------------------------------
\* jsx_self: the __self attribute of JSX opening elements
\* ------------------------------------------------------------------------
\* JSXAttrOrSpread; the value of an attribute is an Option
JSXAttr(name, value, span) ==
    [ tag |-> "JSXAttr", name |-> name, value |-> value, span |-> span ]
SpreadElement(span) == [ tag |-> "SpreadElement", name |-> "", value |-> None, span |-> span ]

JSXOpeningElement(name, attrs, self_closing) ==
    [ name |-> name, attrs |-> attrs, self_closing |-> self_closing ]
NoElement == JSXOpeningElement("", << >>, FALSE)

\* pub fn jsx_self(dev)
jsx_self(dev) == [ dev |-> dev ]

\* the attribute pushed by the fold: __self = {this}
SelfAttr == JSXAttr("__self", Some("this"), "DUMMY_SP")

JsxSelfFoldGuarded(self, n) ==
    IF ~self.dev \/ \E i \in DOMAIN n.attrs : n.attrs[i].name = "__self" THEN n
    ELSE [ n EXCEPT !.attrs = Append(@, SelfAttr) ]

\* impl Fold<JSXOpeningElement> for JsxSelf
JsxSelfFold(self, n) ==
    IF ~self.dev THEN n
    ELSE [ n EXCEPT !.attrs = Append(@, SelfAttr) ]

\* ------------------------------------------------------------------------
\* The parts of the state a specification leaves alone
\* ------------------------------------------------------------------------
NoBuiltins == [ f \in PolyfillNames |-> None ]
NoTable == [ n \in TableNames |-> None ]

pipeline_vars == << c, pass, debug_out, input, node, applied, required, first_out,
                    first_required, runs, outcome, message, debug_assertions, builtins >>
enable_vars == << targets, row, default_on, enable >>
analyzer_vars == << resolved_imports, scope, libs, scope_types, expr, result, in_ty,
                    in_kind, in_args, in_type_args, negated, steps >>
context_vars == << resolved_imports, scope, libs, scope_types >>
jsx_vars == << jsx_dev, jsx_in, jsx_n, folds >>

FoldIdle ==
    /\ input = NoNode /\ node = NoNode /\ applied = << >> /\ required = << >>
    /\ first_out = NoNode /\ first_required = << >> /\ runs = 0
    /\ outcome = "none" /\ message = ""

PipelineIdle ==
    /\ c = ConfigDefault /\ pass = << >> /\ debug_out = << >>
    /\ debug_assertions = TRUE /\ builtins = NoBuiltins
    /\ FoldIdle

EnableIdle ==
    targets = NoTargets /\ row = NoTargets /\ default_on = FALSE /\ enable = FALSE

ContextIdle ==
    resolved_imports = NoTable /\ scope = << >> /\ libs = NoTable /\ scope_types = NoTable

CallIdle ==
    in_ty = NoType /\ in_kind = "" /\ in_args = << >> /\ in_type_args = None

NegateIdle ==
    negated = NoType /\ steps = 0

AnalyzerIdle ==
    /\ ContextIdle /\ CallIdle /\ NegateIdle
    /\ expr = NoExpr /\ result = NoResult

JsxIdle ==
    jsx_dev = FALSE /\ jsx_in = NoElement /\ jsx_n = NoElement /\ folds = 0

\* ------------------------------------------------------------------------
\* Specification SpecEnable: should_enable on drawn arguments
\* ------------------------------------------------------------------------
\* the rows explored: any entry on the targeted platforms, one entry shared by
\* the others
RowSet ==
    { [ p \in Platforms |-> IF p \in TargetedPlatforms THEN t[p] ELSE rest ] :
        t \in [ TargetedPlatforms -> VersionOpt ], rest \in { None, Some(MinVersion) } }

InitEnable ==
    /\ pc = "args"
    /\ targets \in VersionsSet
    /\ row \in RowSet
    /\ default_on \in BOOLEAN
    /\ enable = FALSE
    /\ PipelineIdle /\ AnalyzerIdle /\ JsxIdle

ShouldEnable ==
    /\ pc = "args"
    /\ enable' = should_enable(row, targets, default_on)
    /\ pc' = "done"
    /\ UNCHANGED << targets, row, default_on, pipeline_vars, analyzer_vars, jsx_vars >>

NextEnable == ShouldEnable

SpecEnable == InitEnable /\ [][NextEnable]_vars

\* ------------------------------------------------------------------------
\* Specification Spec: preset_env composes the pipeline, the pipeline folds
\* ------------------------------------------------------------------------
CoreJsSet == { 0, 2, 3 }

\* the targets explored: any chrome, and ie absent or at the oldest version
ComposeVersions ==
    { v \in VersionsSet : v["ie"] \in { None, Some(MinVersion) } }

ComposeConfigs ==
    [ mode : ModeSet, debug : BOOLEAN, dynamic_import : BOOLEAN, loose : BOOLEAN,
      skip : { {} }, core_js : CoreJsSet, versions : ComposeVersions ]

ComposeItems == { Syntax("ArrowFunctions"), Syntax("AsyncToGenerator"), Use("Map") }

Init ==
    /\ pc = "config"
    /\ c \in ComposeConfigs
    /\ pass = << >> /\ debug_out = << >>
    /\ debug_assertions = TRUE /\ builtins = NoBuiltins
    /\ FoldIdle /\ EnableIdle /\ AnalyzerIdle /\ JsxIdle

\* pub fn preset_env(mut c: Config) -> impl Pass
PresetEnv ==
    /\ pc = "config"
    /\ \E table \in FeatureTables :
         /\ pass' = preset_env(c, table)
         /\ debug_out' = AddDebug(<< >>, 1, NormalizeCoreJs(c), table)
    /\ c' = NormalizeCoreJs(c)
    /\ pc' = "composed"
    /\ UNCHANGED << input, node, applied, required, first_out, first_required, runs,
                    outcome, message, debug_assertions, builtins, enable_vars,
                    analyzer_vars, jsx_vars >>

\* the composed pass folds a Module
FoldModule ==
    /\ pc = "composed"
    /\ \E b \in BodiesOver(ComposeItems) :
         LET lowered == FoldStages(pass, 1, Module(b))
         IN  /\ input' = Module(b)
             /\ required' = Required(c, debug_assertions, builtins, lowered)
             /\ node' = PolyfillsFoldModule(c, debug_assertions, builtins, lowered)
    /\ first_out' = node'
    /\ first_required' = required'
    /\ applied' = StagesRun(pass, 1, << >>)
    /\ runs' = 1
    /\ outcome' = "ok"
    /\ pc' = "folded"
    /\ UNCHANGED << c, pass, debug_out, message, debug_assertions, builtins,
                    enable_vars, analyzer_vars, jsx_vars >>

\* the composed pass folds a Script
FoldScript ==
    /\ pc = "composed"
    /\ \E b \in BodiesOver(ComposeItems) :
         LET lowered == FoldStages(pass, 1, Script(b))
             r == PolyfillsFoldScript(c, lowered)
         IN  /\ input' = Script(b)
             /\ outcome' = r.outcome
             /\ message' = r.message
             /\ node' = IF r.outcome = "ok" THEN lowered ELSE node
    /\ applied' = StagesRun(pass, 1, << >>)
    /\ runs' = 1
    /\ pc' = "folded"
    /\ UNCHANGED << c, pass, debug_out, required, first_out, first_required,
                    debug_assertions, builtins, enable_vars, analyzer_vars, jsx_vars >>

Next == PresetEnv \/ FoldModule \/ FoldScript

Spec == Init /\ [][Next]_vars

\* ------------------------------------------------------------------------
\* Specification SpecPolyfill: the Polyfills stage folds on its own
\* ------------------------------------------------------------------------
ChromeOnly(v) == [ p \in Platforms |-> IF p = "chrome" THEN Some(v) ELSE None ]

PolyfillVersions == { NoTargets } \cup { ChromeOnly(v) : v \in VersionSet }

SkipSets ==
    { sk \in SUBSET { Specifier(f) : f \in PolyfillNames } : Cardinality(sk) <= MaxSkip }

PolyfillConfigs ==
    [ mode : ModeSet, debug : { FALSE }, dynamic_import : { FALSE }, loose : { FALSE },
      skip : SkipSets, core_js : { 2 }, versions : PolyfillVersions ]

PolyfillItems == { Use("Map"), Use("Promise"), Stmt }

InitPolyfill ==
    /\ pc = "ready"
    /\ c \in PolyfillConfigs
    /\ pass = << PolyfillsStage >> /\ debug_out = << >>
    /\ debug_assertions \in BOOLEAN
    /\ builtins \in BuiltinTables
    /\ FoldIdle /\ EnableIdle /\ AnalyzerIdle /\ JsxIdle

\* Polyfills::fold on a Module
PolyfillsFold ==
    /\ pc = "ready"
    /\ \E b \in BodiesOver(PolyfillItems) :
         /\ input' = Module(b)
         /\ required' = Required(c, debug_assertions, builtins, Module(b))
         /\ node' = PolyfillsFoldModule(c, debug_assertions, builtins, Module(b))
    /\ first_out' = node'
    /\ first_required' = required'
    /\ applied' = << "Polyfills" >>
    /\ runs' = 1
    /\ outcome' = "ok"
    /\ pc' = "folded"
    /\ UNCHANGED << c, pass, debug_out, message, debug_assertions, builtins,
                    enable_vars, analyzer_vars, jsx_vars >>

\* Polyfills::fold on the Module an earlier fold returned
PolyfillsFoldAgain ==
    /\ pc = "folded"
    /\ outcome = "ok"
    /\ runs < MaxRuns
    /\ required' = Required(c, debug_assertions, builtins, node)
    /\ node' = PolyfillsFoldModule(c, debug_assertions, builtins, node)
    /\ applied' = Append(applied, "Polyfills")
    /\ runs' = runs + 1
    /\ UNCHANGED << pc, c, pass, debug_out, input, first_out, first_required, outcome,
                    message, debug_assertions, builtins, enable_vars, analyzer_vars, jsx_vars >>

\* Polyfills::fold on a Script
PolyfillsFoldOnScript ==
    /\ pc = "ready"
    /\ \E b \in BodiesOver(PolyfillItems) :
         LET r == PolyfillsFoldScript(c, Script(b))
         IN  /\ input' = Script(b)
             /\ outcome' = r.outcome
             /\ message' = r.message
             /\ node' = IF r.outcome = "ok" THEN Script(b) ELSE node
    /\ applied' = << "Polyfills" >>
    /\ runs' = 1
    /\ pc' = "folded"
    /\ UNCHANGED << c, pass, debug_out, required, first_out, first_required,
                    debug_assertions, builtins, enable_vars, analyzer_vars, jsx_vars >>

NextPolyfill == PolyfillsFold \/ PolyfillsFoldAgain \/ PolyfillsFoldOnScript

SpecPolyfill == InitPolyfill /\ [][NextPolyfill]_vars

\* ------------------------------------------------------------------------
\* Specification SpecTypeOf: type_of on a drawn expression and context
\* ------------------------------------------------------------------------
InitTypeOf ==
    /\ pc = "expr"
    /\ resolved_imports \in ImportTables
    /\ scope \in Scopes
    /\ libs \in LibTables
    /\ expr \in ExprSet
    /\ result = NoResult
    /\ scope_types = NoTable
    /\ CallIdle /\ NegateIdle
    /\ PipelineIdle /\ EnableIdle /\ JsxIdle

TypeOf ==
    /\ pc = "expr"
    /\ result' = type_of(AnalyzerOf(resolved_imports, scope, libs, scope_types), expr)
    /\ pc' = "typed"
    /\ UNCHANGED << context_vars, expr, in_ty, in_kind, in_args, in_type_args, negated, steps,
                    pipeline_vars, enable_vars, jsx_vars >>

NextTypeOf == TypeOf

SpecTypeOf == InitTypeOf /\ [][NextTypeOf]_vars

\* ------------------------------------------------------------------------
\* Specification SpecExpr: type_of on a drawn expression tree
\* ------------------------------------------------------------------------
MaxElems == 3
MaxStmts == 2
MaxParams == 2
MaxArgs == 2

\* sequences of at most n members of S
SeqsUpTo(S, n) == UNION { [ 1..k -> S ] : k \in 0..n }

\* the spans of the drawn sub-expressions: the first and the last
LeafSpans == { 1, MaxSpan }

\* the leaves of the drawn trees
NumLeaves == { LitExpr(NumLit(v, sp)) : v \in { 0, 1 }, sp \in LeafSpans }
StrLeaves == { LitExpr(StrLit(v, sp)) : v \in { "", "a" }, sp \in LeafSpans }
BoolLeaves == { LitExpr(BoolLit(v, sp)) : v \in BOOLEAN, sp \in LeafSpans }
Leaves ==
    NumLeaves \cup StrLeaves \cup BoolLeaves
    \cup { Ident("a", sp) : sp \in LeafSpans } \cup { This(sp) : sp \in LeafSpans }
    \cup { LitExpr(NullLit(sp)) : sp \in LeafSpans }
    \cup { LitExpr(RegexLit(sp)) : sp \in LeafSpans }

\* array literals: holes, elements and one spread element
ElemExprs ==
    { LitExpr(NumLit(1, sp)) : sp \in LeafSpans }
    \cup { LitExpr(StrLit("a", sp)) : sp \in LeafSpans }
    \cup { Ident("a", sp) : sp \in LeafSpans }
Elems == { Hole, SpreadElem(Ident("a", 1)) } \cup { Elem(e) : e \in ElemExprs }
Arrays == { ArrayLit(elems, sp) : elems \in SeqsUpTo(Elems, MaxElems), sp \in Spans }

\* conditionals: the test is a leaf, an expression that fails or one that panics
Tests == { LitExpr(BoolLit(TRUE, 1)), Ident("a", 1), AwaitExpr(This(1), 1) }
Conds == { CondExpr(t, x, y, sp) : t \in Tests, x \in Leaves, y \in Leaves, sp \in Spans }

\* functions and arrows with a block body
ReturnExprs == { LitExpr(StrLit("a", 1)), LitExpr(NumLit(1, 1)), Ident("a", 1) }
Stmts ==
    { ReturnStmt(None, sp) : sp \in Spans }
    \cup { ReturnStmt(Some(e), sp) : e \in ReturnExprs, sp \in Spans }
    \cup { ExprStmt(LitExpr(NumLit(0, 1)), 1) }
Blocks == { BlockStmt(stmts, sp) : stmts \in SeqsUpTo(Stmts, MaxStmts), sp \in Spans }
Fns ==
    { ArrowExpr(<< >>, b, None, b.span) : b \in Blocks }
    \cup { FnExpr(<< >>, Some(b), None, b.span) : b \in Blocks }
    \cup { FnExpr(<< >>, None, Some(KeywordType("number", sp)), sp) : sp \in Spans }
    \cup { FnExpr(<< >>, None, None, sp) : sp \in Spans }

\* immediately applied arrows, parenthesized or not
ParamLists == SeqsUpTo({ PatIdent("x", FALSE), PatIdent("x", TRUE), PatRest("x") }, MaxParams)
ArrowBodies ==
    { LitExpr(NumLit(1, 1)), Ident("x", 1), Ident("a", 1),
      BinExpr("+", Ident("x", 1), LitExpr(NumLit(1, 1)), 1),
      BinExpr("-", Ident("x", 1), LitExpr(NumLit(1, 1)), 1) }
Arrows ==
    { ArrowExpr(ps, b, None, sp) : ps \in ParamLists, b \in ArrowBodies, sp \in LeafSpans }
ArgLists == SeqsUpTo({ ExprOrSpread(None, LitExpr(NumLit(1, 1))) }, MaxArgs)
Calls ==
    { CallExpr(f, xs, None, f.span) : f \in Arrows, xs \in ArgLists }
    \cup { CallExpr(ParenExpr(f, f.span), xs, None, f.span) : f \in Arrows, xs \in ArgLists }

\* the constructs type_of has no rule for
Unhandled ==
    UNION { { AwaitExpr(e, sp), MetaPropExpr(sp),
              BinExpr("+", e, e, sp), UnaryExpr("-", e, sp),
              ObjectLit(<< Prop("k", sp), SpreadProp(sp) >>, sp),
              CallExpr(MemberExpr(e, e, TRUE, sp), << >>, None, sp),
              MemberExpr(Super(sp), e, FALSE, sp) } :
            e \in { LitExpr(NumLit(1, 1)), Ident("a", 1) }, sp \in Spans }

\* one expression at least for every other arm of type_of
Others ==
    UNION { { ParenExpr(e, sp), TplExpr(<< e >>, sp), UnaryExpr("!", e, sp),
              UnaryExpr("typeof", e, sp), UnaryExpr("void", e, sp),
              TsAsExpr(e, KeywordType("string", sp), sp),
              TsTypeCastExpr(e, KeywordType("string", sp), sp),
              TsNonNullExpr(e, sp), TsNonNullExpr(CondExpr(e, e, Ident("undefined", 1), sp), sp),
              ObjectLit(<< Prop("k", sp) >>, sp),
              YieldExpr(sp), UpdateExpr(e, sp), SeqExpr(<< e, This(sp) >>, sp),
              SeqExpr(<< >>, sp), AssignExpr(e, e, sp),
              BinExpr("||", e, e, sp), BinExpr("&&", e, e, sp), BinExpr("-", e, e, sp),
              BinExpr("||", e, This(sp), sp), AssignExpr(e, This(sp), sp),
              BinExpr("===", e, e, sp), BinExpr("<", e, e, sp),
              MemberExpr(e, Ident("k", 1), FALSE, sp), MemberExpr(e, e, TRUE, sp),
              CallExpr(Super(sp), << >>, None, sp),
              CallExpr(MemberExpr(e, Ident("k", 1), FALSE, sp), << >>, None, sp),
              CallExpr(MemberExpr(ObjectLit(<< Prop("k", sp) >>, sp), Ident("k", 1), FALSE,
                                  sp), << >>, None, sp),
              CallExpr(Ident("require", sp), << ExprOrSpread(None, e) >>, None, sp),
              CallExpr(Ident("require", sp), << >>, None, sp),
              CallExpr(e, << >>, None, sp),
              NewExpr(e, None, None, sp),
              NewExpr(ClassExpr(<< ClassProp("k", None, Some(e), sp), Constructor(<< >>, sp),
                                   Method("m", sp) >>, sp), Some(<< >>), None, sp),
              ClassExpr(<< ClassProp("k", Some(KeywordType("string", sp)), None, sp),
                           ClassProp("l", None, None, sp) >>, sp) } :
            e \in { LitExpr(NumLit(1, 1)), LitExpr(StrLit("a", 1)), Ident("a", 1) },
            sp \in Spans }

TreeSet == Leaves \cup Arrays \cup Conds \cup Fns \cup Calls \cup Unhandled \cup Others

\* the contexts of the drawn trees: `a` is imported or bound nowhere
TreeImports ==
    { NoTable, [ n \in TableNames |-> IF n = "a" THEN Some(KeywordType("number", DeclSpan))
                                      ELSE None ] }

InitExpr ==
    /\ pc = "expr"
    /\ resolved_imports \in TreeImports
    /\ scope = << >> /\ libs = NoTable /\ scope_types = NoTable
    /\ expr \in TreeSet
    /\ result = NoResult
    /\ CallIdle /\ NegateIdle
    /\ PipelineIdle /\ EnableIdle /\ JsxIdle

SpecExpr == InitExpr /\ [][NextTypeOf]_vars

\* the context of the run
ThisAnalyzer == AnalyzerOf(resolved_imports, scope, libs, scope_types)

\* ------------------------------------------------------------------------
\* Specification SpecExtract: extract and try_instantiate on a drawn callee type
\* ------------------------------------------------------------------------
MaxMembers == 2

ExtractKind == { "Call", "New" }

\* the declared parameters of the drawn signatures
ParamDecls ==
    SeqsUpTo({ FnParamIdent("x", FALSE), FnParamIdent("x", TRUE), FnParamRest("x") },
             MaxParams)
ReturnTypes == { KeywordType("number", DeclSpan), KeywordType("string", DeclSpan) }

Signatures ==
    { FnType(ps, tp, r, sp) :
        ps \in ParamDecls, tp \in { 0, 1 }, r \in ReturnTypes, sp \in Spans }
    \cup { ConstructorType(ps, tp, r, sp) :
             ps \in ParamDecls, tp \in { 0, 1 }, r \in ReturnTypes, sp \in Spans }

\* the members of the drawn type literals
MemberParams == { << >>, << FnParamIdent("x", FALSE) >> }
MemberReturns == { None, Some(KeywordType("number", DeclSpan)) }
Members ==
    { CallSignatureDecl(ps, 0, r, DeclSpan) : ps \in MemberParams, r \in MemberReturns }
    \cup { CallSignatureDecl(<< >>, 0, Some(KeywordType("string", DeclSpan)), DeclSpan),
           ConstructSignatureDecl(<< >>, 0, None, DeclSpan),
           ConstructSignatureDecl(<< FnParamIdent("x", FALSE) >>, 0,
                                  Some(KeywordType("number", DeclSpan)), DeclSpan),
           MethodSignature("k", << >>, None, DeclSpan),
           PropertySignature("k", None, DeclSpan) }
TypeLits == { TypeLit(ms, sp) : ms \in SeqsUpTo(Members, MaxMembers), sp \in Spans }

\* the members of the drawn union types: callable or not, one a union itself
UnionMembers ==
    { any(DeclSpan), KeywordType("number", DeclSpan), TypeRef(<< "T" >>, DeclSpan),
      FnType(<< FnParamIdent("x", FALSE) >>, 0, KeywordType("string", DeclSpan), DeclSpan),
      FnType(<< >>, 0, KeywordType("number", DeclSpan), DeclSpan),
      ConstructorType(<< >>, 0, KeywordType("number", DeclSpan), DeclSpan),
      TsUnionType(<< KeywordType("number", DeclSpan),
                     FnType(<< >>, 0, KeywordType("boolean", DeclSpan), DeclSpan) >>,
                  DeclSpan) }
Unions == { TsUnionType(ms, sp) : ms \in SeqsUpTo(UnionMembers, MaxMembers), sp \in Spans }

ExtractTypes ==
    Signatures \cup TypeLits \cup Unions
    \cup { any(sp) : sp \in Spans } \cup { KeywordType("number", sp) : sp \in Spans }
    \cup { TypeRef(<< "T" >>, sp) : sp \in Spans } \cup { TypeQuery("a", sp) : sp \in Spans }

TypeArgs == { None, Some(<< KeywordType("number", DeclSpan) >>) }

InitExtract ==
    /\ pc = "call"
    /\ expr \in { Ident("f", sp) : sp \in Spans }
    /\ in_ty \in ExtractTypes
    /\ in_kind \in ExtractKind
    /\ in_args \in ArgLists
    /\ in_type_args \in TypeArgs
    /\ result = NoResult
    /\ ContextIdle /\ NegateIdle
    /\ PipelineIdle /\ EnableIdle /\ JsxIdle

\* extract(span, ty, kind, args, type_args), span being the span of the callee
Extract ==
    /\ pc = "call"
    /\ result' = extract(ThisAnalyzer, expr.span, in_ty, in_kind, in_args, in_type_args)
    /\ pc' = "extracted"
    /\ UNCHANGED << context_vars, expr, in_ty, in_kind, in_args, in_type_args, negated,
                    steps, pipeline_vars, enable_vars, jsx_vars >>

\* try_instantiate on the single signature of a function or constructor type
TryInstantiate ==
    /\ pc = "call"
    /\ in_ty.tag \in { "TsFnType", "TsConstructorType" }
    /\ result' = try_instantiate(expr.span, in_ty.span, in_ty.type_ann, in_ty.params,
                                 in_ty.type_params, in_args, in_type_args)
    /\ pc' = "instantiated"
    /\ UNCHANGED << context_vars, expr, in_ty, in_kind, in_args, in_type_args, negated,
                    steps, pipeline_vars, enable_vars, jsx_vars >>

NextExtract == Extract \/ TryInstantiate

SpecExtract == InitExtract /\ [][NextExtract]_vars

\* ------------------------------------------------------------------------
\* Specification SpecJsx: the JsxSelf fold applied to a drawn opening element
\* ------------------------------------------------------------------------
MaxAttrs == 2
MaxFolds == 2

AttrSet ==
    { JSXAttr("id", Some("x"), "src"), JSXAttr("__self", Some("this"), "src"),
      JSXAttr("__self", None, "src"), SpreadElement("src") }

Elements ==
    { JSXOpeningElement("div", attrs, sc) :
        attrs \in UNION { [ 1..k -> AttrSet ] : k \in 0..MaxAttrs }, sc \in BOOLEAN }

InitJsx ==
    /\ pc = "jsx"
    /\ jsx_dev \in BOOLEAN
    /\ jsx_in \in Elements
    /\ jsx_n = jsx_in
    /\ folds = 0
    /\ PipelineIdle /\ EnableIdle /\ AnalyzerIdle

JsxFold ==
    /\ pc = "jsx"
    /\ folds < MaxFolds
    /\ jsx_n' = JsxSelfFold(jsx_self(jsx_dev), jsx_n)
    /\ folds' = folds + 1
    /\ UNCHANGED << pc, jsx_dev, jsx_in, pipeline_vars, enable_vars, analyzer_vars >>

NextJsx == JsxFold

SpecJsx == InitJsx /\ [][NextJsx]_vars

\* ------------------------------------------------------------------------
\* Specification SpecNegate: negate applied repeatedly to a drawn type
\* ------------------------------------------------------------------------
MaxNegations == 2

LitTypes ==
    { LitType(BoolLit(v, ls), sp) : v \in BOOLEAN, ls \in Spans, sp \in Spans }
    \cup { LitType(NumLit(v, ls), sp) : v \in NumValues, ls \in Spans, sp \in Spans }
    \cup { LitType(StrLit(v, ls), sp) : v \in StrValues, ls \in Spans, sp \in Spans }

KeywordTypes ==
    { KeywordType(k, sp) : k \in { "any", "boolean", "number", "string" }, sp \in Spans }

InitNegate ==
    /\ pc = "type"
    /\ in_ty \in LitTypes \cup KeywordTypes
    /\ in_kind = "" /\ in_args = << >> /\ in_type_args = None
    /\ NegateIdle
    /\ ContextIdle /\ expr = NoExpr /\ result = NoResult
    /\ PipelineIdle /\ EnableIdle /\ JsxIdle

Negate ==
    /\ pc \in { "type", "negated" }
    /\ steps < MaxNegations
    /\ negated' = negate(IF steps = 0 THEN in_ty ELSE negated)
    /\ steps' = steps + 1
    /\ pc' = "negated"
    /\ UNCHANGED << context_vars, expr, result, in_ty, in_kind, in_args, in_type_args,
                    pipeline_vars, enable_vars, jsx_vars >>

NextNegate == Negate

SpecNegate == InitNegate /\ [][NextNegate]_vars

\* ------------------------------------------------------------------------
\* Specification SpecExpand: expand and extract under a context that declares
\* type aliases and variables, among them ones that refer to each other
\* ------------------------------------------------------------------------
\* the declared type names and variable names
TypeNames == { "A", "B" }
VarNames == { "a", "b" }

\* the declaration an import binds a type name to
ImportedDecl == FnType(<< >>, 0, KeywordType("number", DeclSpan), DeclSpan)
\* the declaration the scope binds a type name to
ScopeDecl == FnType(<< >>, 0, KeywordType("string", DeclSpan), DeclSpan)

\* a table binding each type name to nothing, to the declaration d, or to an
\* alias of the other type name (type A = B; type B = A)
AliasTables(d) ==
    { [ A |-> x, B |-> y ] :
        x \in { None, Some(d), Some(TypeRef(<< "B" >>, DeclSpan)) },
        y \in { None, Some(d), Some(TypeRef(<< "A" >>, DeclSpan)) } }

\* one frame of variables whose declared type is nothing or `typeof` the other
\* variable (let a: typeof b; let b: typeof a)
QueryFrames ==
    { [ a |-> x, b |-> y ] :
        x \in { None, Some(TypeQuery("b", DeclSpan)) },
        y \in { None, Some(TypeQuery("a", DeclSpan)) } }

\* the types handed to expand: references (plain, qualified, undeclared),
\* typeof queries, and types that are neither
ExpandRefs ==
    { TypeRef(n, sp) : n \in { << "A" >>, << "B" >>, << "A", "x" >>, << "C" >> },
                       sp \in Spans }
ExpandQueries == { TypeQuery(v, sp) : v \in VarNames, sp \in Spans }
ExpandOthers ==
    { KeywordType("number", sp) : sp \in Spans } \cup { any(sp) : sp \in Spans }
    \cup { FnType(<< >>, 0, KeywordType("boolean", DeclSpan), sp) : sp \in Spans }
    \cup { TypeLit(<< >>, sp) : sp \in Spans }
ExpandTypes == ExpandRefs \cup ExpandQueries \cup ExpandOthers

InitExpand ==
    /\ pc = "call"
    /\ resolved_imports \in AliasTables(ImportedDecl)
    /\ scope_types \in AliasTables(ScopeDecl)
    /\ scope \in { << f >> : f \in QueryFrames }
    /\ libs = NoTable
    /\ expr \in { Ident("f", sp) : sp \in Spans }
    /\ in_ty \in ExpandTypes
    /\ in_kind \in ExtractKind
    /\ in_args = << >>
    /\ in_type_args = None
    /\ result = NoResult
    /\ NegateIdle
    /\ PipelineIdle /\ EnableIdle /\ JsxIdle

\* expand(span, ty)
Expand ==
    /\ pc = "call"
    /\ result' = expand(ThisAnalyzer, expr.span, in_ty)
    /\ pc' = "expanded"
    /\ UNCHANGED << context_vars, expr, in_ty, in_kind, in_args, in_type_args, negated,
                    steps, pipeline_vars, enable_vars, jsx_vars >>

NextExpand == Expand \/ Extract

SpecExpand == InitExpand /\ [][NextExpand]_vars

\* ------------------------------------------------------------------------
\* Specification SpecMember: type_of on member accesses and member calls
\* ------------------------------------------------------------------------
MaxMethods == 3

\* what the scope declares under the type name E: nothing, an enum, or a type
\* that is not an enum
EnumTables ==
    { [ E |-> x ] : x \in { None, Some(EnumType("E", DeclSpan)), Some(ScopeDecl) } }

\* the variables of the member accesses: E, o and k, each imported or not
AccessImports ==
    { [ E |-> x, o |-> y, k |-> z ] :
        x \in { None, Some(KeywordType("number", DeclSpan)) },
        y \in { None, Some(any(DeclSpan)) },
        z \in { None, Some(KeywordType("string", DeclSpan)) } }

\* the objects: the name of the enum, a variable, and expressions that are not
\* identifiers, one of which type_of has no rule for
AccessObjects ==
    { Ident("E", 1), Ident("o", 1), This(1), LitExpr(NumLit(1, 1)), AwaitExpr(This(1), 1) }
\* the properties of computed accesses
ComputedProps ==
    { Ident("k", 1), LitExpr(StrLit("k", 1)), LitExpr(NumLit(0, 1)), AwaitExpr(This(1), 1) }
MemberAccesses ==
    { MemberExpr(obj, Ident("k", 1), FALSE, sp) : obj \in AccessObjects, sp \in Spans }
    \cup { MemberExpr(obj, p, TRUE, sp) :
             obj \in AccessObjects, p \in ComputedProps, sp \in Spans }

\* the members of the type literal a method is called on
Methods ==
    { MethodSignature("k", << >>, None, DeclSpan),
      MethodSignature("k", << >>, Some(KeywordType("number", DeclSpan)), DeclSpan),
      MethodSignature("k", << FnParamIdent("x", FALSE) >>,
                      Some(KeywordType("string", DeclSpan)), DeclSpan),
      MethodSignature("k", << FnParamIdent("x", TRUE) >>, None, DeclSpan),
      MethodSignature("m", << >>, Some(KeywordType("boolean", DeclSpan)), DeclSpan),
      PropertySignature("k", None, DeclSpan),
      CallSignatureDecl(<< >>, 0, Some(KeywordType("number", DeclSpan)), DeclSpan) }
MethodImports ==
    { [ o |-> Some(TypeLit(ms, DeclSpan)) ] : ms \in SeqsUpTo(Methods, MaxMethods) }

\* o.k(args), o.m(args), o[k](args), o["k"](args) and new o.k(args)
CalledMembers ==
    { MemberExpr(Ident("o", 1), Ident(n, 1), FALSE, sp) : n \in { "k", "m" },
                                                           sp \in LeafSpans }
    \cup { MemberExpr(Ident("o", 1), p, TRUE, sp) :
             p \in { Ident("k", 1), LitExpr(StrLit("k", 1)) }, sp \in LeafSpans }
MemberCalls ==
    { CallExpr(f, xs, None, f.span) : f \in CalledMembers, xs \in ArgLists }
    \cup { NewExpr(MemberExpr(Ident("o", 1), Ident("k", 1), FALSE, sp), Some(xs), None, sp) :
             xs \in ArgLists, sp \in LeafSpans }

InitMember ==
    /\ pc = "expr"
    /\ \/ /\ expr \in MemberAccesses
          /\ resolved_imports \in AccessImports
          /\ scope_types \in EnumTables
       \/ /\ expr \in MemberCalls
          /\ resolved_imports \in MethodImports
          /\ scope_types = NoTable
    /\ scope = << >> /\ libs = NoTable
    /\ result = NoResult
    /\ CallIdle /\ NegateIdle
    /\ PipelineIdle /\ EnableIdle /\ JsxIdle

SpecMember == InitMember /\ [][NextTypeOf]_vars

\* ------------------------------------------------------------------------
\* Properties of the pass composer (specification Spec)
\* ------------------------------------------------------------------------
StageNames(p) == [ i \in DOMAIN p |-> p[i].name ]

StageEnabled(p, name) == \E i \in DOMAIN p : p[i].name = name /\ p[i].enabled

ApplicationOrder ==
    << "ObjectRestSpread", "OptionalCatchBinding", "AsyncToGenerator",
       "ExponentiationOperator", "BlockScopedFunctions", "TemplateLiterals", "Classes",
       "Spread", "FunctionName", "ArrowFunctions", "DuplicateKeys", "StickyRegex",
       "TypeOfSymbol", "ShorthandProperties", "Parameters", "ForOf",
       "ComputedProperties", "Destructuring", "BlockScoping", "PropertyLiterals",
       "MemberExpressionLiterals", "ReservedWords", "Polyfills" >>

Es2015Stages ==
    { "BlockScopedFunctions", "TemplateLiterals", "Classes", "Spread", "FunctionName",
      "ArrowFunctions", "DuplicateKeys", "StickyRegex", "TypeOfSymbol",
      "ShorthandProperties", "Parameters", "ForOf", "ComputedProperties",
      "Destructuring", "BlockScoping" }

OtherEraStages ==
    { "ObjectRestSpread", "OptionalCatchBinding", "AsyncToGenerator",
      "ExponentiationOperator", "PropertyLiterals", "MemberExpressionLiterals",
      "ReservedWords" }

AllLoweringsDisabled == \A i \in DOMAIN pass : pass[i].name # "Polyfills" => ~ pass[i].enabled

\* C1: whatever the Config, the composed pipeline lists the 22 lowering stages in
\* the fixed order ObjectRestSpread .. ReservedWords with Polyfills last, and the
\* stages that run on a node run in that same relative order.
C1_FixedApplicationOrder ==
    /\ pc \in { "composed", "folded" } => StageNames(pass) = ApplicationOrder
    /\ pc = "folded" =>
         LET Ran(name) == StageEnabled(pass, name)
         IN  applied = SelectSeq(ApplicationOrder, Ran)

C1_Witness ==
    /\ pc = "folded"
    /\ c.versions # NoTargets
    /\ Len(applied) > 2
    /\ \E i \in DOMAIN pass : ~ pass[i].enabled
    /\ applied[Len(applied)] = "Polyfills"

\* C3: composed from Config::default, every one of the fifteen ES2015 stages is
\* active and every ES2018, ES2017, ES2016 and ES3 stage is inactive.
C3_DefaultConfigStages ==
    (pc \in { "composed", "folded" } /\ c = NormalizeCoreJs(ConfigDefault)) =>
        /\ \A name \in Es2015Stages : StageEnabled(pass, name)
        /\ \A name \in OtherEraStages :
             /\ name \in { pass[i].name : i \in DOMAIN pass }
             /\ ~ StageEnabled(pass, name)

C3_Witness ==
    /\ pc = "composed"
    /\ c = NormalizeCoreJs(ConfigDefault)
    /\ Cardinality({ i \in DOMAIN pass : pass[i].enabled }) = Cardinality(Es2015Stages) + 1

\* C4: a disabled stage returns the node it is given: a construct whose stage is
\* disabled leaves the pipeline as it entered; and when all 22 lowering stages
\* are disabled and mode is not Usage, the folded Module is the input Module.
C4_DisabledStageIsIdentity ==
    (pc = "folded" /\ input.type = "Module") =>
        /\ \A i \in DOMAIN input.body :
             (input.body[i].kind = "syntax" /\ ~ StageEnabled(pass, input.body[i].name)) =>
                 /\ Len(required) + i \in DOMAIN node.body
                 /\ node.body[Len(required) + i] = input.body[i]
        /\ (AllLoweringsDisabled /\ c.mode # Some("Usage")) => node = input

C4_Witness ==
    /\ pc = "folded"
    /\ input.type = "Module"
    /\ AllLoweringsDisabled
    /\ c.mode = Some("Entry")
    /\ \E i \in DOMAIN input.body : input.body[i].kind = "syntax"
    /\ node = input

\* ------------------------------------------------------------------------
\* Properties of should_enable (specification SpecEnable)
\* ------------------------------------------------------------------------
Targeted == { p \in Platforms : targets[p] # None }

\* C2: with no platform targeted the result is default_on; otherwise it is true
\* iff some targeted platform has no row entry or a target below its row entry;
\* so one targeted platform at or above its row entry gives false for either
\* default_on.
C2_ShouldEnable ==
    pc = "done" =>
        /\ Targeted = {} => enable = default_on
        /\ Targeted # {} =>
             enable = (\E p \in Targeted :
                          \/ row[p] = None
                          \/ VersionLt(Unwrap(targets[p]), Unwrap(row[p])))
        /\ \A p \in Platforms :
             (Targeted = { p } /\ row[p] # None
                 /\ ~ VersionLt(Unwrap(targets[p]), Unwrap(row[p]))) => enable = FALSE

C2_Witness ==
    /\ pc = "done"
    /\ default_on
    /\ ~ enable
    /\ \E p \in Platforms :
         /\ Targeted = { p }
         /\ row[p] # None
         /\ VersionLt(Unwrap(row[p]), Unwrap(targets[p]))
         /\ \E q \in Platforms \ { p } : row[q] = None

\* ------------------------------------------------------------------------
\* Properties of the Polyfills stage (specification SpecPolyfill)
\* ------------------------------------------------------------------------
FoldedModule == pc = "folded" /\ outcome = "ok" /\ input.type = "Module"

\* C5: in Usage mode the folded body is one import without specifiers per entry
\* of the specifier list, in list order, followed by the original items in their
\* order; in mode Entry or None the Module comes back as it went in.
C5_PrependedImports ==
    (FoldedModule /\ runs = 1) =>
        IF c.mode = Some("Usage")
        THEN /\ Len(node.body) = Len(required) + Len(input.body)
             /\ \A i \in DOMAIN required :
                  /\ node.body[i].kind = "import"
                  /\ node.body[i].src = required[i]
                  /\ node.body[i].specifiers = << >>
             /\ \A j \in DOMAIN input.body : node.body[Len(required) + j] = input.body[j]
        ELSE node = input

C5_Witness ==
    /\ FoldedModule /\ runs = 1
    /\ c.mode = Some("Usage")
    /\ Len(required) >= 2
    /\ Len(input.body) >= 2
    /\ input.body[1] # input.body[2]

\* C6: in a build with debug assertions, the specifier list one Usage fold
\* injects is in strictly ascending lexicographic order, so it is sorted and
\* holds no specifier twice, also when a global is used more than once.
C6_SortedNoDuplicates ==
    (FoldedModule /\ debug_assertions /\ c.mode = Some("Usage")) =>
        \A i, j \in DOMAIN required : i < j => StrLt(required[i], required[j])

C6_Witness ==
    /\ FoldedModule /\ runs = 1
    /\ debug_assertions
    /\ c.mode = Some("Usage")
    /\ Len(input.body) >= 2
    /\ input.body[1] = Use("Promise")
    /\ input.body[2] = Use("Promise")
    /\ Len(required) = 2

\* C7: folding a Script never returns one: under every Config, mode None and
\* Entry included, it ends in the "automatic polyfill for scripts" panic.
C7_ScriptAlwaysPanics ==
    (pc = "folded" /\ input.type = "Script") =>
        /\ outcome = "panic"
        /\ message = "not implemented: automatic polyfill for scripts"
        /\ node = NoNode

C7_Witness ==
    /\ pc = "folded"
    /\ input.type = "Script"
    /\ c.mode = None
    /\ input.body # << >>
    /\ outcome = "panic"

\* C8: in Usage mode no specifier that is a member of config.skip is prepended
\* as an import.
C8_SkipIsHonoured ==
    (FoldedModule /\ c.mode = Some("Usage")) =>
        \A i \in DOMAIN required : required[i] \notin c.skip

\* C9: folding the result of a Usage fold again returns that same Module, and
\* both folds collect the same set of specifiers.
C9_UsageFoldIdempotent ==
    (FoldedModule /\ c.mode = Some("Usage") /\ runs = 2) =>
        /\ node = first_out
        /\ { required[i] : i \in DOMAIN required }
             = { first_required[i] : i \in DOMAIN first_required }

\* ------------------------------------------------------------------------
\* Properties of type_of (specification SpecTypeOf)
\* ------------------------------------------------------------------------
FramesBinding(sym) == { i \in DOMAIN scope : scope[i][sym] # None }

\* C10: an identifier other than undefined and require resolves to its entry in
\* resolved_imports, else in the scope, else in the builtin types, the earliest
\* table binding it deciding; bound nowhere it is Err(UndefinedSymbol) with the
\* identifier's span. The identifier undefined is the undefined keyword type
\* whatever the tables bind.
C10_IdentLookupOrder ==
    (pc = "typed" /\ expr.tag = "Ident") =>
        /\ expr.sym = "undefined" => result = Ok(KeywordType("undefined", expr.span))
        /\ expr.sym \notin { "undefined", "require" } =>
             LET sym == expr.sym
                 imported == IF sym \in DOMAIN resolved_imports
                             THEN resolved_imports[sym] ELSE None
                 builtin == IF sym \in DOMAIN libs THEN libs[sym] ELSE None
                 scoped == IF sym \in TableNames THEN FramesBinding(sym) ELSE {}
             IN  /\ imported # None => result = Ok(Unwrap(imported))
                 /\ (imported = None /\ scoped # {}) =>
                      \E i \in scoped : /\ \A k \in scoped : i <= k
                                        /\ result = Ok(Unwrap(scope[i][sym]))
                 /\ (imported = None /\ scoped = {} /\ builtin # None) =>
                      result = Ok(Unwrap(builtin))
                 /\ (imported = None /\ scoped = {} /\ builtin = None) =>
                      result = Err([ kind |-> "UndefinedSymbol", span |-> expr.span ])

C10_Witness ==
    /\ pc = "typed"
    /\ expr.tag = "Ident"
    /\ expr.sym = "a"
    /\ resolved_imports["a"] # None
    /\ FramesBinding("a") # {}
    /\ libs["a"] # None
    /\ result = Ok(KeywordType("number", DeclSpan))

\* ------------------------------------------------------------------------
\* Properties of negate (specification SpecNegate)
\* ------------------------------------------------------------------------
\* C14 as stated: negating twice gives back a boolean literal type up to spans,
\* and turns every string or number literal type into the boolean keyword type.
C14_DoubleNegationKeyword ==
    (steps = 2 /\ in_ty.tag = "TsLitType") =>
        IF in_ty.lit.kind = "Bool" THEN eq_ignore_span(negated, in_ty)
        ELSE eq_ignore_span(negated, KeywordType("boolean", in_ty.span))

\* C14, amended: negating twice gives back a boolean literal type up to spans;
\* on a number literal type it gives the boolean literal type whose value tells
\* that the number is zero, on a string literal type the boolean literal type
\* whose value tells that the string is empty, the spans of the type and of
\* the literal being kept: never the boolean keyword type.
C14_DoubleNegation ==
    (steps = 2 /\ in_ty.tag = "TsLitType") =>
        /\ in_ty.lit.kind = "Bool" => eq_ignore_span(negated, in_ty)
        /\ in_ty.lit.kind = "Number" =>
             negated = LitType(BoolLit(in_ty.lit.n = 0, in_ty.lit.span), in_ty.span)
        /\ in_ty.lit.kind = "Str" =>
             negated = LitType(BoolLit(in_ty.lit.s = "", in_ty.lit.span), in_ty.span)

C14_Witness ==
    /\ steps = 2
    /\ in_ty.tag = "TsLitType"
    /\ in_ty.lit.kind = "Number"
    /\ in_ty.lit.n = 0
    /\ negated.tag = "TsLitType"
    /\ negated.lit.b = TRUE

\* ------------------------------------------------------------------------
\* Properties of type_of on expression trees (specification SpecExpr)
\* ------------------------------------------------------------------------
Typed == pc = "typed"

\* the identifier is bound by the imports of the run
Bound(e) == e.sym \in DOMAIN resolved_imports /\ resolved_imports[e.sym] # None

\* the widened type expected of a literal or bound identifier
Widened(e) ==
    IF e.tag = "Lit" /\ e.lit.kind = "Number" THEN KeywordType("number", e.span)
    ELSE IF e.tag = "Lit" /\ e.lit.kind = "Str" THEN KeywordType("string", e.span)
    ELSE IF e.tag = "Lit" /\ e.lit.kind = "Bool" THEN KeywordType("boolean", e.span)
    ELSE Unwrap(resolved_imports[e.sym])

SameKeyword(x, y) == x.tag = y.tag /\ x.kind = y.kind

\* the array literal has no spread element and every element has a type
PlainArray ==
    /\ expr.tag = "Array"
    /\ \A i \in DOMAIN expr.elems :
         expr.elems[i] # None =>
           /\ expr.elems[i][1].spread = None
           /\ expr.elems[i][1].arg.tag = "Ident" => Bound(expr.elems[i][1].arg)

\* C11: an array literal without spread has the type Array{any} when it is
\* empty, Array{t} when its widened element types (holes counting as
\* undefined) are all equal up to spans, and otherwise Array{Union} of the
\* distinct widened types in order of first occurrence.
C11_ArrayLiteral ==
    (Typed /\ PlainArray) =>
        LET T(i) == IF expr.elems[i] = None THEN KeywordType("undefined", expr.span)
                    ELSE Widened(expr.elems[i][1].arg)
            FirstOcc == { i \in DOMAIN expr.elems :
                            \A k \in 1..(i - 1) : ~SameKeyword(T(k), T(i)) }
            Kth(k) == CHOOSE i \in FirstOcc : Cardinality({ j \in FirstOcc : j < i }) = k - 1
            Expected ==
                IF FirstOcc = {} THEN KeywordType("any", expr.span)
                ELSE IF Cardinality(FirstOcc) = 1 THEN T(Kth(1))
                ELSE [ tag |-> "Union", span |-> expr.span,
                       types |-> [ k \in 1..Cardinality(FirstOcc) |-> T(Kth(k)) ] ]
        IN  result = Ok([ tag |-> "Array", elem_type |-> Expected, span |-> expr.span ])

C11_Witness ==
    /\ Typed /\ PlainArray
    /\ Len(expr.elems) = 3
    /\ \A i \in { 1, 3 } : /\ expr.elems[i] # None
                           /\ expr.elems[i][1].arg.tag = "Lit"
                           /\ expr.elems[i][1].arg.lit.kind = "Number"
    /\ expr.elems[1][1].arg.span # expr.elems[3][1].arg.span
    /\ expr.elems[2] # None
    /\ expr.elems[2][1].arg.tag = "Lit"
    /\ expr.elems[2][1].arg.lit.kind = "Str"
    /\ result.tag = "Ok"
    /\ result.val.elem_type.tag = "Union"
    /\ Len(result.val.elem_type.types) = 2
    /\ result.val.elem_type.types[1].kind = "number"
    /\ result.val.elem_type.types[2].kind = "string"

\* the type expected of a leaf: a literal, this, or a bound identifier
LeafType(e) ==
    IF e.tag = "Lit" /\ e.lit.kind \in { "Bool", "Number", "Str" }
    THEN [ tag |-> "TsLitType", lit |-> e.lit, span |-> e.span ]
    ELSE IF e.tag = "Lit" /\ e.lit.kind = "Null" THEN KeywordType("null", e.span)
    ELSE IF e.tag = "Lit" THEN [ tag |-> "TsTypeRef", type_name |-> << "RegExp" >>,
                                 span |-> e.span ]
    ELSE IF e.tag = "This" THEN [ tag |-> "TsThisType", kind |-> "this", span |-> e.span ]
    ELSE Unwrap(resolved_imports[e.sym])

IsLeaf(e) == e.tag \in { "Lit", "This" } \/ (e.tag = "Ident" /\ Bound(e))

\* two leaf types are equal when their spans are left out
SameLeafType(x, y) ==
    /\ x.tag = y.tag
    /\ x.tag = "TsLitType" =>
         /\ x.lit.kind = y.lit.kind /\ x.lit.b = y.lit.b
         /\ x.lit.n = y.lit.n /\ x.lit.s = y.lit.s
    /\ x.tag \in { "TsKeywordType", "TsThisType" } => x.kind = y.kind
    /\ x.tag = "TsTypeRef" => x.type_name = y.type_name

\* C13: the type of a conditional is the type of the consequent when both arms
\* have the same type up to spans, and otherwise the Union of the two arm types
\* in the order consequent, alternate; the test is never typed, so a test that
\* fails or is not handled changes nothing.
C13_Conditional ==
    (Typed /\ expr.tag = "Cond" /\ IsLeaf(expr.cons) /\ IsLeaf(expr.alt)) =>
        IF SameLeafType(LeafType(expr.cons), LeafType(expr.alt))
        THEN result = Ok(LeafType(expr.cons))
        ELSE result = Ok([ tag |-> "Union", span |-> expr.span,
                           types |-> << LeafType(expr.cons), LeafType(expr.alt) >> ])

C13_Witness ==
    /\ Typed /\ expr.tag = "Cond"
    /\ expr.test.tag = "Await"
    /\ expr.cons.tag = "Lit" /\ expr.cons.lit.kind = "Str"
    /\ expr.alt.tag = "Lit" /\ expr.alt.lit.kind = "Str"
    /\ expr.cons.lit.s = expr.alt.lit.s
    /\ expr.cons.span # expr.alt.span
    /\ result = Ok(LeafType(expr.cons))

\* the Union types a result of type_of may hold: the type itself, the element
\* type of an Array, the return type of a function type
UnionsOf(t) ==
    (IF t.tag = "Union" THEN { t } ELSE {})
    \cup (IF t.tag = "Array" /\ t.elem_type.tag = "Union" THEN { t.elem_type } ELSE {})
    \cup (IF t.tag = "TsFnType" /\ t.type_ann.tag = "Union" THEN { t.type_ann } ELSE {})

\* C12: every Union built by type_of (for an array literal, a conditional, the
\* returns of a function body) has at least two members, and no two of its
\* members are equal up to spans.
C12_UnionMembersDistinct ==
    (Typed /\ result.tag = "Ok") =>
        \A u \in UnionsOf(result.val) :
            /\ Len(u.types) >= 2
            /\ \A i \in DOMAIN u.types : \A j \in DOMAIN u.types :
                 i # j => ~eq_ignore_span(u.types[i], u.types[j])

\* the arrow function called by the expression, parentheses removed
CalledArrow == IF expr.callee.tag = "Paren" THEN expr.callee.arg ELSE expr.callee

\* the expression applies an arrow function whose parameters are all required
\* identifiers to a number of arguments that is not the number of parameters
ArrowArityMismatch ==
    /\ expr.tag = "Call"
    /\ expr.callee.tag \in { "Arrow", "Paren" }
    /\ CalledArrow.tag = "Arrow"
    /\ \A i \in DOMAIN CalledArrow.params :
         CalledArrow.params[i].tag = "PatIdent" /\ ~CalledArrow.params[i].optional
    /\ Len(expr.args) # Len(CalledArrow.params)

\* C16: calling an arrow function of m required parameters with n # m
\* arguments gives Err(WrongParams{expected: m..=m, actual: n}), whatever the
\* body of the arrow is.
C16_ArrowCallWrongParams ==
    (Typed /\ ArrowArityMismatch) =>
        /\ result.tag = "Err"
        /\ result.val.kind = "WrongParams"
        /\ result.val.expected = [ start |-> Len(CalledArrow.params),
                                   end |-> Len(CalledArrow.params) ]
        /\ result.val.actual = Len(expr.args)

\* the expression is one of the constructs type_of has no rule for, and
\* nothing typed before the construct fails
UnhandledConstruct ==
    \/ expr.tag \in { "Await", "MetaProp" }
    \/ expr.tag = "Bin" /\ expr.op = "+"
    \/ expr.tag = "Object" /\ \E i \in DOMAIN expr.props : expr.props[i].tag = "Spread"
    \/ /\ expr.tag = "Array" /\ Len(expr.elems) >= 1
       /\ expr.elems[1] # None /\ expr.elems[1][1].spread # None
    \/ /\ expr.tag = "Call" /\ expr.callee.tag = "Member"
       /\ expr.callee.computed /\ expr.callee.obj.tag = "Lit"

\* C17: on a construct it does not handle (array spread, object spread, await,
\* MetaProp, computed member call on a non-TypeLit object, binary `+`) type_of
\* returns Err(Unimplemented) and does not panic.
C17_UnhandledIsErr ==
    (Typed /\ UnhandledConstruct) =>
        result.tag = "Err" /\ result.val.kind = "Unimplemented"

\* ------------------------------------------------------------------------
\* Properties of jsx_self (specification SpecJsx)
\* ------------------------------------------------------------------------
\* C18: with dev off every fold returns the opening element unchanged; with
\* dev on each fold appends one attribute __self = {this} after the attributes
\* already there, which keep their order and content, whether or not a __self
\* attribute exists: after k folds the element has k more attributes.
C18_JsxSelfAppends ==
    pc = "jsx" =>
        IF ~jsx_dev THEN jsx_n = jsx_in
        ELSE /\ jsx_n.name = jsx_in.name
             /\ jsx_n.self_closing = jsx_in.self_closing
             /\ Len(jsx_n.attrs) = Len(jsx_in.attrs) + folds
             /\ \A i \in DOMAIN jsx_in.attrs : jsx_n.attrs[i] = jsx_in.attrs[i]
             /\ \A i \in (Len(jsx_in.attrs) + 1)..Len(jsx_n.attrs) :
                  /\ jsx_n.attrs[i].tag = "JSXAttr"
                  /\ jsx_n.attrs[i].name = "__self"
                  /\ jsx_n.attrs[i].value = Some("this")

C18_Witness ==
    /\ pc = "jsx"
    /\ jsx_dev
    /\ folds = 2
    /\ \E i \in DOMAIN jsx_in.attrs : jsx_in.attrs[i].name = "__self"
    /\ Len(jsx_n.attrs) = Len(jsx_in.attrs) + 2

\* the result of extract on the i-th member of the union handed to extract
MemberResult(i) ==
    extract(ThisAnalyzer, expr.span, in_ty.types[i], in_kind, in_args, in_type_args)

\* C15: extract on a union type returns the result of the first member, in
\* declaration order, on which extract succeeds; when extract fails on every
\* member the result is Err(UnionError) whose errors are the errors of the
\* members, one per member and in member order.
C15_ExtractUnion ==
    (pc = "extracted" /\ in_ty.tag = "TsUnionType") =>
        LET callable == { i \in DOMAIN in_ty.types : MemberResult(i).tag = "Ok" }
        IN  IF callable # {}
            THEN result = MemberResult(CHOOSE i \in callable : \A k \in callable : i <= k)
            ELSE /\ result.tag = "Err"
                 /\ result.val.kind = "UnionError"
                 /\ result.val.span = expr.span
                 /\ Len(result.val.errors) = Len(in_ty.types)
                 /\ \A i \in DOMAIN in_ty.types :
                      result.val.errors[i] = MemberResult(i).val

C15_Witness ==
    /\ pc = "extracted" /\ in_ty.tag = "TsUnionType"
    /\ Len(in_ty.types) = 2
    /\ in_ty.types[1].tag = "TsTypeRef"
    /\ in_ty.types[2].tag = "TsKeywordType" /\ in_ty.types[2].kind = "number"
    /\ result.tag = "Err"
    /\ result.val.kind = "UnionError"
    /\ Len(result.val.errors) = 2
    /\ result.val.errors[1].kind = "Unimplemented"
    /\ result.val.errors[2].kind \in { "NoCallSignature", "NoNewSignature" }

\* ------------------------------------------------------------------------
\* Properties of extract and try_instantiate (specification SpecExtract)
\* ------------------------------------------------------------------------
\* the number of declared parameters that are not an optional identifier
RequiredParams(params) ==
    Cardinality({ i \in DOMAIN params : ~(params[i].tag = "Ident" /\ params[i].optional) })

\* the arity envelope of the declared parameters accepts n arguments
Accepts(params, n) == RequiredParams(params) <= n /\ n <= Len(params)

\* the type handed to extract is a single signature of the kind asked for
SingleSignature ==
    \/ in_ty.tag = "TsFnType" /\ in_kind = "Call"
    \/ in_ty.tag = "TsConstructorType" /\ in_kind = "New"

\* C19: try_instantiate returns the declared return type when the number of
\* arguments lies between the number of parameters that are not optional
\* identifiers and the number of parameters, and Err(WrongParams) carrying that
\* envelope and the number of arguments otherwise, whatever the type arguments
\* and type parameters are; extract on a function type (kind Call) or a
\* constructor type (kind New) returns the same result.
C19_TryInstantiate ==
    (pc = "instantiated" \/ (pc = "extracted" /\ SingleSignature)) =>
        IF Accepts(in_ty.params, Len(in_args)) THEN result = Ok(in_ty.type_ann)
        ELSE result = Err([ kind |-> "WrongParams", span |-> expr.span,
                            callee |-> in_ty.span,
                            expected |-> [ start |-> RequiredParams(in_ty.params),
                                           end |-> Len(in_ty.params) ],
                            actual |-> Len(in_args) ])

C19_Witness ==
    /\ pc = "extracted" /\ SingleSignature
    /\ in_ty.tag = "TsConstructorType"
    /\ in_type_args # None
    /\ in_ty.type_params = 0
    /\ Len(in_ty.params) = 2
    /\ RequiredParams(in_ty.params) = 1
    /\ Len(in_args) = 0
    /\ result.tag = "Err"
    /\ result.val.kind = "WrongParams"
    /\ result.val.expected = [ start |-> 1, end |-> 2 ]

\* the members of the type literal that extract considers for the kind asked
\* for and whose arity envelope accepts the arguments
AcceptedMembers ==
    { i \in DOMAIN in_ty.members :
        /\ \/ in_ty.members[i].tag = "TsCallSignatureDecl" /\ in_kind = "Call"
           \/ in_ty.members[i].tag = "TsConstructSignatureDecl" /\ in_kind = "New"
        /\ Accepts(in_ty.members[i].params, Len(in_args)) }

\* C20: extract on a type literal returns the return type (any when none is
\* declared) of the first call signature, for kind Call, or construct
\* signature, for kind New, whose arity envelope accepts the number of
\* arguments; when there is none the result is NoCallSignature for kind Call
\* and NoNewSignature for kind New, never the WrongParams of a member.
C20_ExtractTypeLit ==
    (pc = "extracted" /\ in_ty.tag = "TsTypeLit") =>
        IF AcceptedMembers = {}
        THEN result = Err([ kind |-> IF in_kind = "Call" THEN "NoCallSignature"
                                     ELSE "NoNewSignature",
                            span |-> expr.span ])
        ELSE LET first == CHOOSE i \in AcceptedMembers : \A k \in AcceptedMembers : i <= k
             IN  IF in_ty.members[first].type_ann = None
                 THEN result = Ok(KeywordType("any", expr.span))
                 ELSE result = Ok(in_ty.members[first].type_ann[1])

C20_Witness ==
    /\ pc = "extracted" /\ in_ty.tag = "TsTypeLit"
    /\ in_kind = "Call"
    /\ Len(in_ty.members) = 2
    /\ \A i \in DOMAIN in_ty.members :
         /\ in_ty.members[i].tag = "TsCallSignatureDecl"
         /\ ~Accepts(in_ty.members[i].params, Len(in_args))
    /\ result = Err([ kind |-> "NoCallSignature", span |-> expr.span ])
\* the definition a type reference resolves to: resolved_imports first, then
\* scope.find_type; None when the root name is declared in neither
Resolved(a, t) ==
    IF Lookup(a.resolved_imports, root(t.type_name)) # None
    THEN Lookup(a.resolved_imports, root(t.type_name))
    ELSE find_type(a.types, root(t.type_name))

Expanded == pc = "expanded"

\* C21: expand on a TypeRef looks the root identifier of the name up in
\* resolved_imports and then in scope.find_type; when a definition is found the
\* result is that definition and not the reference, when none is found the
\* result is Err(Unimplemented) carrying the root name and the source path;
\* a type that is neither a TypeRef nor a TypeQuery comes back unchanged.
C21_ExpandResolves ==
    Expanded =>
        /\ in_ty.tag = "TsTypeRef" /\ Resolved(ThisAnalyzer, in_ty) # None
           => result = Ok(Unwrap(Resolved(ThisAnalyzer, in_ty)))
        /\ in_ty.tag = "TsTypeRef" /\ Resolved(ThisAnalyzer, in_ty) = None
           => /\ result.tag = "Err"
              /\ result.val.kind = "Unimplemented"
              /\ result.val.msg.sym = root(in_ty.type_name)
              /\ result.val.msg.path = Path
        /\ in_ty.tag \notin { "TsTypeRef", "TsTypeQuery" } => result = Ok(in_ty)
\* the chain of definitions that starts at the type t comes back to a name it
\* has already passed: a reference goes on to the definition of its root name,
\* a typeof query to the declared type of its variable
RECURSIVE Cyclic(_, _, _)
Cyclic(a, t, seen) ==
    IF t.tag = "TsTypeRef"
    THEN LET key == << "type", root(t.type_name) >>
         IN  IF key \in seen THEN TRUE
             ELSE IF Resolved(a, t) = None THEN FALSE
             ELSE Cyclic(a, Unwrap(Resolved(a, t)), seen \cup { key })
    ELSE IF t.tag = "TsTypeQuery"
    THEN LET key == << "var", t.sym >>
             declared == type_of_ident(a.resolved_imports, a.scope, a.libs,
                                       Ident(t.sym, t.span))
         IN  IF key \in seen THEN TRUE
             ELSE IF ~IsOk(declared) THEN FALSE
             ELSE Cyclic(a, declared.val, seen \cup { key })
    ELSE FALSE

Returned == result.tag \in { "Ok", "Err" }

\* C22: type resolution terminates on cyclic definitions: expand and extract
\* return for every scope and resolved_imports, and when the type aliases or
\* typeof queries they start from refer to each other in a cycle the result is
\* Err(Unimplemented).
C22_CycleIsUnimplemented ==
    pc \in { "expanded", "extracted" } =>
        /\ Returned
        /\ Cyclic(ThisAnalyzer, in_ty, { })
           => result.tag = "Err" /\ result.val.kind = "Unimplemented"
\* the object of the member access e is an identifier that scope.find_type
\* resolves to an Enum
EnumObject(a, e) ==
    /\ e.obj.tag = "Ident"
    /\ find_type(a.types, e.obj.sym) # None
    /\ Unwrap(find_type(a.types, e.obj.sym)).tag = "Enum"

MemberAccess == pc = "typed" /\ expr.tag = "Member"

\* the index type of a member access on an object that is not an enum
IndexOf(a, e) ==
    IF e.computed THEN type_of(a, e.prop) ELSE Ok(KeywordType("string", e.span))

\* C23: type_of on a member access: when the object is an identifier that
\* scope.find_type resolves to an Enum the result is the TypeRef of the
\* qualified name obj.prop, the object not being typed; for every other object
\* the result is IndexedAccessType{type_of(obj), index}, index being the string
\* keyword for a non-computed access and type_of(prop) for a computed one, and
\* an error typing the object or the computed property is the result.
C23_MemberAccess ==
    MemberAccess =>
        LET a == ThisAnalyzer
            o == type_of(a, expr.obj)
            i == IndexOf(a, expr)
        IN  IF EnumObject(a, expr)
            THEN /\ result.tag = "Ok"
                 /\ result.val.tag = "TsTypeRef"
                 /\ result.val.type_name[1] = expr.obj.sym
                 /\ Len(result.val.type_name) = 2
                 /\ expr.prop.tag = "Ident" => result.val.type_name[2] = expr.prop.sym
            ELSE IF ~IsOk(o) THEN result = o
            ELSE IF ~IsOk(i) THEN result = i
            ELSE result = Ok(IndexedAccessType(o.val, i.val, expr.span))
\* a member call o.prop(args) of kind Call on an object whose type is a TypeLit
MemberCall ==
    /\ pc = "typed"
    /\ expr.tag = "Call"
    /\ expr.callee.tag = "Member"
    /\ ~expr.callee.computed
    /\ IsOk(type_of(ThisAnalyzer, expr.callee.obj))
    /\ type_of(ThisAnalyzer, expr.callee.obj).val.tag = "TsTypeLit"

\* the method signatures named like the called property, in member order
Candidates ==
    SelectSeq(type_of(ThisAnalyzer, expr.callee.obj).val.members,
              LAMBDA m : m.tag = "TsMethodSignature" /\ m.key = expr.callee.prop.sym)

\* the declared return type of a candidate, any when there is none
ReturnOf(m) == IF m.type_ann = None THEN any(expr.callee.span) ELSE Unwrap(m.type_ann)

\* the candidates whose parameter count is the number of arguments
SameArity == { k \in DOMAIN Candidates : Len(Candidates[k].params) = Len(expr.args) }

\* C24: a member call obj.prop(args) of kind Call on a TypeLit: no method
\* signature named prop gives Err(NoCallSignature); exactly one gives its
\* declared return type, any when undeclared, whatever the number of
\* arguments; several give the return type of the first, in member order,
\* whose parameter count is args.len(), and an Err when none has that count.
C24_MemberCall ==
    MemberCall =>
        IF Len(Candidates) = 0
        THEN result = Err(NoCallSignature(expr.callee.span))
        ELSE IF Len(Candidates) = 1 THEN result = Ok(ReturnOf(Candidates[1]))
        ELSE IF SameArity # { }
        THEN result = Ok(ReturnOf(Candidates[CHOOSE k \in SameArity :
                                               \A l \in SameArity : k <= l]))
        ELSE result.tag = "Err"
\* the operand sub-expressions of e, in evaluation order
Operands(e) ==
    IF e.tag \in { "Unary", "Update", "Paren", "TsNonNull", "TsAs", "TsTypeCast" }
    THEN << e.arg >>
    ELSE IF e.tag \in { "Bin", "Assign" } THEN << e.left, e.right >>
    ELSE IF e.tag = "Tpl" THEN e.exprs
    ELSE IF e.tag = "Cond" THEN << e.test, e.cons, e.alt >>
    ELSE << >>

\* the operands of e whose typing fails with an Err
FailingOperands(a, e) ==
    { i \in DOMAIN Operands(e) : type_of(a, Operands(e)[i]).tag = "Err" }

\* no operand of e aborts type_of
NoOperandPanics(a, e) ==
    \A i \in DOMAIN Operands(e) : type_of(a, Operands(e)[i]).tag # "Panic"

\* C25: a failing sub-expression short-circuits its parent: when the typing of
\* an operand of e (of typeof, void, a comparison or arithmetic operator, an
\* update, `||`, `&&`, an assignment, `as`, a template or a conditional) is
\* Err, type_of(e) is that Err, the first one in evaluation order.
C25_OperandErrorPropagates ==
    /\ pc = "typed"
    /\ FailingOperands(ThisAnalyzer, expr) # { }
    /\ NoOperandPanics(ThisAnalyzer, expr)
    => LET first == CHOOSE i \in FailingOperands(ThisAnalyzer, expr) :
                       \A j \in FailingOperands(ThisAnalyzer, expr) : i <= j
       IN  result = type_of(ThisAnalyzer, Operands(expr)[first])
\* a function or a block-bodied arrow without a return annotation
InferredFn ==
    /\ pc = "typed"
    /\ expr.tag \in { "Arrow", "Fn" }
    /\ expr.return_type = None
    /\ expr.tag = "Arrow" => expr.body.tag = "BlockStmt"
    /\ expr.tag = "Fn" => expr.fn_body # None

BodyOf(e) == IF e.tag = "Arrow" THEN e.body ELSE Unwrap(e.fn_body)

\* the return statements of the body, in source order
Returns(e) == SelectSeq(BodyOf(e).stmts, LAMBDA s : s.tag = "Return")

\* what one return statement contributes: the typing of its argument, or
\* undefined when it has none
Contribution(a, e, i) ==
    IF Returns(e)[i].arg = None THEN Ok(undefined(BodyOf(e).span))
    ELSE type_of(a, Unwrap(Returns(e)[i].arg))

FailingReturns(a, e) == { i \in DOMAIN Returns(e) : Contribution(a, e, i).tag = "Err" }

\* C26: return-type inference without annotation: the types of the return
\* statements are collected in source order, a bare return giving undefined;
\* none makes the return type the undefined keyword, one makes it that type,
\* two or more make it the union of all of them; when the typing of a return
\* argument fails the whole typing fails with the first such error.
C26_ReturnInference ==
    InferredFn =>
        LET a == ThisAnalyzer
            n == Len(Returns(expr))
            tys == [ i \in 1..n |-> Contribution(a, expr, i).val ]
        IN  IF FailingReturns(a, expr) # { }
            THEN result = Contribution(a, expr,
                              CHOOSE i \in FailingReturns(a, expr) :
                                  \A k \in FailingReturns(a, expr) : i <= k)
            ELSE IF n = 0
            THEN result = Ok(FnTypeOf(expr, undefined(BodyOf(expr).span)))
            ELSE IF n = 1 THEN result = Ok(FnTypeOf(expr, tys[1]))
            ELSE result = Ok(FnTypeOf(expr, UnionType(tys, BodyOf(expr).span)))

\* a body with a bare return and a return of a value has been typed as a
\* function that returns the union of the two
C26_Witness ==
    /\ InferredFn
    /\ Len(Returns(expr)) = 2
    /\ Returns(expr)[1].arg = None
    /\ Returns(expr)[2].arg # None
    /\ result.tag = "Ok"
    /\ result.val.type_ann.tag = "Union"
    /\ Len(result.val.type_ann.types) = 2

====
